---- MODULE Spec2Model ----
\* A model of the immediate-mode UI engine of src/src/ui.cpp (declarations in
\* the ui.h header, src/unnamed/part_002): identifier hashing and
\* deduplication, the panel arena and the stack-based builder API.
EXTENDS Integers, Sequences, FiniteSets, TLC

\* ---------------------------------------------------------------------------
\* Bounds of the model and program constants
\* ---------------------------------------------------------------------------

\* Capacity of the panel arena (UI_MAX_PANELS is 1024 in ui.h; scaled down).
UI_MAX_PANELS == 4

\* Capacity of the parent stack (UI_MAX_PARENT_STACK_DEPTH, the literal 32 in
\* UI_Begin_Panel; scaled down).
UI_MAX_PARENT_STACK_DEPTH == 2

\* Capacity of the used-ID table (UI_MAX_USED_IDS and the literal 1024 in
\* UI_Generate_Id): the same number as UI_MAX_PANELS in the program.
UI_MAX_USED_IDS == UI_MAX_PANELS

\* Size of the text buffers, the snprintf target of UI_Generate_Id among them
\* (MAX_UI_TEXT_LENGTH is 256 in ui.h; scaled down).
MAX_UI_TEXT_LENGTH == 8

\* Capacity of the size-override table (UI_MAX_SIZE_OVERRIDES, the literal 32
\* in UI_Set_Size_Override; scaled down).
UI_MAX_SIZE_OVERRIDES == 3

\* Capacities of the render list (256 and 256 in the program).
MAX_UI_RECTANGLES == 3

MAX_UI_TEXTS == 1

\* Number of frames explored in one behaviour of SpecLayout.
MaxLayoutFrames == 1

\* Number of frames explored in one behaviour of SpecFrame.
MaxFrames == 3

\* Frames of a run of drag scenes: two drags, one after the other.
MaxDragFrames == 5

\* The widest content box of the rows laid out with fractional grow factors.
ShareMaxContent == 12

\* The capacity of the character buffer (32 in ui.h) and the most notches
\* the wheel turns one way between two frames.
UI_MAX_CHAR_BUFFER == 2

MaxWheel == 2

\* Number of API calls explored in one behaviour.
MaxCalls == 5

\* Number of style-setter calls explored in one behaviour.
MaxStyleCalls == 1

\* Longest string given to the hash in SpecHash.
MaxHashLen == 3

\* ---------------------------------------------------------------------------
\* 32-bit integer arithmetic (UI_Id is int32_t; the build wraps on overflow).
\* Values are kept as signed 32-bit integers and computed on 16-bit limbs.
\* ---------------------------------------------------------------------------

Limbs(x) == [hi |-> (x \div 65536) % 65536, lo |-> x % 65536]

FromLimbs(hi, lo) == (IF hi >= 32768 THEN hi - 65536 ELSE hi) * 65536 + lo

\* a + b in int32_t
Add32(a, b) ==
    LET la == Limbs(a)
        lb == Limbs(b)
        s  == la.lo + lb.lo
    IN  FromLimbs((la.hi + lb.hi + (s \div 65536)) % 65536, s % 65536)

\* a << 5 in int32_t
Shl5(a) ==
    LET la == Limbs(a)
        s  == la.lo * 32
    IN  FromLimbs((la.hi * 32 + (s \div 65536)) % 65536, s % 65536)

\* ---------------------------------------------------------------------------
\* C strings: a string is the sequence of its bytes (1..255); the null pointer
\* is NullStr, which no string equals since a string holds no byte 0.
\* ---------------------------------------------------------------------------

NullStr == <<0>>

\* The int value of a plain char holding byte b (char is signed in this build:
\* cl without /J), as read by "c = *str++".
CharToInt(b) == IF b >= 128 THEN b - 256 ELSE b

\* The values of int32_t
Int32 == (-2147483647 - 1)..2147483647

\* The loop "while ((c = *str++)) hash = ((hash << 5) + hash) + c", from the
\* i-th byte on, hash being the int32_t computed so far.
RECURSIVE HashLoop(_, _, _)
HashLoop(str, i, hash) ==
    IF hash \notin Int32 \/ i > Len(str) THEN hash
    ELSE HashLoop(str, i + 1,
                  Add32(Add32(Shl5(hash), hash), CharToInt(str[i])))

UI_HashString_SeedTypo(str) ==
    IF str = NullStr THEN 0 ELSE HashLoop(str, 1, 5831)

\* UI_HashString
UI_HashString(str) ==
    IF str = NullStr THEN 0 ELSE HashLoop(str, 1, 5381)

\* "%d" of a non-negative int
RECURSIVE Decimal(_)
Decimal(n) ==
    IF n < 10 THEN <<48 + n>> ELSE Decimal(n \div 10) \o <<48 + (n % 10)>>

\* snprintf(unique_str, sizeof(unique_str), "%s##%d", str, count): the
\* formatted text cut to the buffer size minus the terminator.
FormatUnique(str, count) ==
    LET full == str \o <<35, 35>> \o Decimal(count)
    IN  IF Len(full) > MAX_UI_TEXT_LENGTH - 1
        THEN SubSeq(full, 1, MAX_UI_TEXT_LENGTH - 1)
        ELSE full

\* ---------------------------------------------------------------------------
\* Panels and the UI context
\* ---------------------------------------------------------------------------

\* A uint32_t colour is kept as the int32 with the same bit pattern.
Color(hi, lo) == FromLimbs(hi, lo)

INT32_MAX == 2147483647

\* The panel record UI_NewPanel leaves behind: memset to 0, then the defaults.
\* flex_grow is a float in the program; the model keeps whole numbers.
DefaultPanel(id) ==
    [ id |-> id,
      parent |-> -1, first_child |-> -1, last_child |-> -1, next_sibling |-> -1,
      style |-> [ color |-> Color(65314, 8738),
                  min_w |-> 200, max_w |-> INT32_MAX,
                  min_h |-> 200, max_h |-> INT32_MAX,
                  pref_w |-> -1, pref_h |-> -1,
                  flex_grow |-> 0,
                  direction |-> 0, gap |-> 0,
                  pad_l |-> 0, pad_t |-> 0, pad_r |-> 0, pad_b |-> 0,
                  resizable |-> 0, resize_hitbox_padding |-> 4 ],
      rect |-> [x |-> 0, y |-> 0, w |-> 0, h |-> 0],
      is_label |-> 0, label_text |-> <<>>, label_color |-> -1 ]

\* UI_Input, left mouse button only (UI_Input_Init)
InitInput ==
    [ mouse_x |-> 0, mouse_y |-> 0,
      mouse_down |-> 0, mouse_pressed |-> 0, mouse_released |-> 0,
      mouse_wheel_delta |-> 0,
      char_buffer |-> [i \in 0..(UI_MAX_CHAR_BUFFER - 1) |-> 0],
      char_count |-> 0, last_char |-> 0 ]

\* UI_Interaction, zero-initialised; ID 0 means "none".
InitInteraction ==
    [ hot_widget |-> 0, hot_widget_prev |-> 0,
      active_widget |-> 0, active_widget_prev |-> 0,
      dragging_divider |-> 0,
      resize_target_left_id |-> 0, resize_target_right_id |-> 0,
      drag_start_pos |-> 0,
      drag_start_size_left |-> 0, drag_start_size_right |-> 0 ]

\* The context after construction (a zero-initialised UI_Context). The panel
\* arena and the used-ID table are kept as the sequences of their live entries
\* (panels[0 .. panel_count-1], used_ids[0 .. used_id_count-1]) and so is
\* the size-override table; the parent stack is the array and its count.
InitContext ==
    [ screen_w |-> 0, screen_h |-> 0,
      panels |-> <<>>,
      parent_stack |-> [i \in 0..(UI_MAX_PARENT_STACK_DEPTH - 1) |-> 0],
      parent_stack_count |-> 0,
      used_ids |-> <<>>, used_id_counts |-> <<>>,
      frame_number |-> 0,
      input |-> InitInput, input_prev |-> InitInput,
      interaction |-> InitInteraction,
      size_overrides |-> <<>>,
      last_button_clicked |-> <<>> ]

\* s->panels[idx] (arena indices start at 0)
PanelAt(c, idx) == c.panels[idx + 1]

\* s->panel_count
panel_count(c) == Len(c.panels)

\* ctx->parent_stack[ctx->parent_stack_count - 1]
StackTop(c) == c.parent_stack[c.parent_stack_count - 1]

\* The index of the first entry of used_ids equal to base_id, or 0.
FindUsedId(c, base_id) ==
    LET hits == {i \in 1..Len(c.used_ids) : c.used_ids[i] = base_id}
    IN  IF hits = {} THEN 0 ELSE CHOOSE i \in hits : \A j \in hits : i <= j

\* UI_Generate_Id after the search of the used-ID table: i is the index of the
\* entry found (0: none).
GenerateIdAt(c, str, base_id, i) ==
    IF i # 0
    THEN [ctx |-> [c EXCEPT !.used_id_counts[i] = @ + 1],
          id  |-> UI_HashString(FormatUnique(str, c.used_id_counts[i]))]
    ELSE IF Len(c.used_ids) < UI_MAX_USED_IDS
    THEN [ctx |-> [c EXCEPT !.used_ids = Append(@, base_id),
                            !.used_id_counts = Append(@, 0)],
          id  |-> base_id]
    ELSE [ctx |-> c, id |-> base_id]

GenerateIdFrom(c, str, base_id) ==
    GenerateIdAt(c, str, base_id, FindUsedId(c, base_id))

\* UI_Generate_Id: the ID and the context with the used-ID table updated.
UI_Generate_Id(c, str) == GenerateIdFrom(c, str, UI_HashString(str))

\* UI_NewPanel: the new panel's index (-1 when the arena is full) and the
\* context with the panel appended.
UI_NewPanel(c, id) ==
    IF panel_count(c) >= UI_MAX_PANELS
    THEN [ctx |-> c, idx |-> -1]
    ELSE [ctx |-> [c EXCEPT !.panels = Append(@, DefaultPanel(id))],
          idx |-> panel_count(c)]

UI_AddChild_ParentNotSet(c, parent_idx, child_idx) ==
    IF PanelAt(c, parent_idx).first_child = -1
    THEN [c EXCEPT !.panels[parent_idx + 1].first_child = child_idx,
                   !.panels[parent_idx + 1].last_child = child_idx]
    ELSE [c EXCEPT !.panels[PanelAt(c, parent_idx).last_child + 1].next_sibling
                       = child_idx,
                   !.panels[parent_idx + 1].last_child = child_idx]

UI_AddChild_Prepend(c, parent_idx, child_idx) ==
    [c EXCEPT !.panels[child_idx + 1].parent = parent_idx,
              !.panels[child_idx + 1].next_sibling =
                  PanelAt(c, parent_idx).first_child,
              !.panels[parent_idx + 1].first_child = child_idx,
              !.panels[parent_idx + 1].last_child =
                  IF PanelAt(c, parent_idx).first_child = -1
                  THEN child_idx ELSE @]

\* UI_AddChild
UI_AddChild(c, parent_idx, child_idx) ==
    IF PanelAt(c, parent_idx).first_child = -1
    THEN [c EXCEPT !.panels[child_idx + 1].parent = parent_idx,
                   !.panels[child_idx + 1].next_sibling = -1,
                   !.panels[parent_idx + 1].first_child = child_idx,
                   !.panels[parent_idx + 1].last_child = child_idx]
    ELSE [c EXCEPT !.panels[child_idx + 1].parent = parent_idx,
                   !.panels[child_idx + 1].next_sibling = -1,
                   !.panels[PanelAt(c, parent_idx).last_child + 1].next_sibling
                       = child_idx,
                   !.panels[parent_idx + 1].last_child = child_idx]

\* LinkOrRoot leaving the root's rect as UI_NewPanel zeroed it.
LinkOrRoot_NoRootRect(c, panel_idx) ==
    IF c.parent_stack_count > 0 /\ StackTop(c) >= 0
    THEN UI_AddChild(c, StackTop(c), panel_idx)
    ELSE c

\* UI_Begin_Panel, after the allocation: the new panel becomes the last child
\* of the panel on top of the parent stack, or the root with the viewport as
\* its rect when the stack is empty.
LinkOrRoot(c, panel_idx) ==
    IF c.parent_stack_count > 0 /\ StackTop(c) >= 0
    THEN UI_AddChild(c, StackTop(c), panel_idx)
    ELSE [c EXCEPT !.panels[panel_idx + 1].rect =
              [x |-> 0, y |-> 0, w |-> c.screen_w, h |-> c.screen_h]]

\* UI_Begin_Panel, the push of the new panel on the parent stack.
PushParent(c, panel_idx) ==
    IF c.parent_stack_count < UI_MAX_PARENT_STACK_DEPTH
    THEN [c EXCEPT !.parent_stack[c.parent_stack_count] = panel_idx,
                   !.parent_stack_count = @ + 1]
    ELSE c

\* UI_Begin_Panel, from the result n of UI_NewPanel on.
BeginPanelNew(n) ==
    IF n.idx < 0 THEN n.ctx
    ELSE PushParent(LinkOrRoot(n.ctx, n.idx), n.idx)

\* UI_Begin_Panel, from the result g of UI_Generate_Id on.
BeginPanelWith(g) == BeginPanelNew(UI_NewPanel(g.ctx, g.id))

\* UI_Begin_Panel
UI_Begin_Panel(c, id_str) == BeginPanelWith(UI_Generate_Id(c, id_str))

UI_End_Panel_Unchecked(c) ==
    [c EXCEPT !.parent_stack_count = @ - 1]

\* UI_End_Panel
UI_End_Panel(c) ==
    IF c.parent_stack_count > 0
    THEN [c EXCEPT !.parent_stack_count = @ - 1]
    ELSE c

\* UI_Panel_Set_Size
UI_Panel_Set_Size(c, width, height) ==
    IF c.parent_stack_count = 0 THEN c
    ELSE [c EXCEPT !.panels[StackTop(c) + 1].style.pref_w = width,
                   !.panels[StackTop(c) + 1].style.pref_h = height]

\* UI_Panel_Set_Direction
UI_Panel_Set_Direction(c, dir) ==
    IF c.parent_stack_count = 0 THEN c
    ELSE [c EXCEPT !.panels[StackTop(c) + 1].style.direction = dir]

\* UI_Panel_Set_Grow
UI_Panel_Set_Grow(c, grow) ==
    IF c.parent_stack_count = 0 THEN c
    ELSE [c EXCEPT !.panels[StackTop(c) + 1].style.flex_grow = grow]

\* The injected text measurement (UI_Text_Measure_Func): a fixed-pitch font.
MeasureText(text) == [x |-> 0, y |-> 0, w |-> 7 * Len(text), h |-> 16]

\* The copy loop "while (len < MAX_UI_TEXT_LENGTH - 1 && text[len])".
CopyText(text) ==
    IF Len(text) > MAX_UI_TEXT_LENGTH - 1
    THEN SubSeq(text, 1, MAX_UI_TEXT_LENGTH - 1)
    ELSE text

\* UI_Label, the label fields written to the panel on top of the stack.
LabelFields(c, text, color) ==
    IF c.parent_stack_count > 0
    THEN [c EXCEPT !.panels[StackTop(c) + 1].style.color = 0,
                   !.panels[StackTop(c) + 1].is_label = 1,
                   !.panels[StackTop(c) + 1].label_color = color,
                   !.panels[StackTop(c) + 1].label_text = CopyText(text)]
    ELSE c

\* UI_Label (with a measurement function installed, as the application does)
UI_Label(c, text, color) ==
    IF text = NullStr THEN c
    ELSE UI_End_Panel(
             LabelFields(
                 UI_Panel_Set_Size(UI_Begin_Panel(c, text),
                                   MeasureText(text).w + 2, MeasureText(text).h),
                 text, color))

\* UI_Input_NewFrame: the press and release edges of the left button, then
\* the per-frame data cleared.
UI_Input_NewFrame(c) ==
    [c EXCEPT !.input.mouse_pressed =
                  IF c.input.mouse_down # 0 /\ c.input_prev.mouse_down = 0
                  THEN 1 ELSE 0,
              !.input.mouse_released =
                  IF c.input.mouse_down = 0 /\ c.input_prev.mouse_down # 0
                  THEN 1 ELSE 0,
              !.input.char_count = 0,
              !.input.mouse_wheel_delta = 0]

UI_BeginFrame_KeepUsedIds(c, w, h) ==
    UI_Input_NewFrame(
        [c EXCEPT !.interaction.hot_widget_prev = c.interaction.hot_widget,
                  !.interaction.active_widget_prev = c.interaction.active_widget,
                  !.frame_number = @ + 1,
                  !.screen_w = w, !.screen_h = h,
                  !.panels = <<>>,
                  !.parent_stack_count = 0])

\* The frame start that clears the hot widget after storing it.
UI_BeginFrame_ClearsHot(c, w, h) ==
    UI_Input_NewFrame(
        [c EXCEPT !.interaction.hot_widget_prev = c.interaction.hot_widget,
                  !.interaction.active_widget_prev = c.interaction.active_widget,
                  !.interaction.hot_widget = 0,
                  !.frame_number = @ + 1,
                  !.screen_w = w, !.screen_h = h,
                  !.panels = <<>>,
                  !.parent_stack_count = 0,
                  !.used_ids = <<>>, !.used_id_counts = <<>>])

\* UI_BeginFrame / UI_BeginFrame_WithTime: the previous-frame interaction
\* state is stored, the builder state is reset, the input edges are computed.
UI_BeginFrame(c, w, h) ==
    UI_Input_NewFrame(
        [c EXCEPT !.interaction.hot_widget_prev = c.interaction.hot_widget,
                  !.interaction.active_widget_prev = c.interaction.active_widget,
                  !.frame_number = @ + 1,
                  !.screen_w = w, !.screen_h = h,
                  !.panels = <<>>,
                  !.parent_stack_count = 0,
                  !.used_ids = <<>>, !.used_id_counts = <<>>])

\* ---------------------------------------------------------------------------
\* Single-precision arithmetic of the layout: flex_grow and grow_sum are
\* floats holding whole numbers, remaining is an int below 2^12 here.
\* A positive float is kept as [m, e], the value m * 2^-e with
\* 2^23 <= m < 2^24 (24 significant bits).
\* ---------------------------------------------------------------------------

RECURSIVE Pow2(_)
Pow2(n) == IF n = 0 THEN 1 ELSE 2 * Pow2(n - 1)

\* Number of bits of n > 0
RECURSIVE BitLen(_)
BitLen(n) == IF n = 0 THEN 0 ELSE 1 + BitLen(n \div 2)

\* Round to nearest, ties to even: q with the remainder rem of a division by d.
RoundEven(q, rem, d) ==
    IF 2 * rem > d \/ (2 * rem = d /\ q % 2 = 1) THEN q + 1 ELSE q

\* The next `bits` quotient bits of rem / b appended to q, then rounded.
RECURSIVE DivBits(_, _, _, _)
DivBits(q, rem, b, bits) ==
    IF bits = 0 THEN RoundEven(q, rem, b)
    ELSE IF 2 * rem >= b THEN DivBits(2 * q + 1, 2 * rem - b, b, bits - 1)
    ELSE DivBits(2 * q, 2 * rem, b, bits - 1)

\* a / b in float for whole a, b with 0 < a <= b: a is scaled by 2^sh so that
\* the quotient lies in [1, 2).
RECURSIVE F32DivScaled(_, _, _)
F32DivScaled(a, b, sh) ==
    IF a < b THEN F32DivScaled(2 * a, b, sh + 1)
    ELSE [m |-> DivBits(1, a - b, b, 23), e |-> 23 + sh]

\* float t = child->style.flex_grow / grow_sum
F32Div(a, b) == F32DivScaled(a, b, 0)

\* (int)(t * (float)remaining) from the exact product hi * 2^12 + lo of t.m
\* and remaining: the product is rounded to 24 significant bits, then
\* truncated to an int.
F32Trunc(hi, lo, e, s) ==
    IF hi < 4096
    THEN IF e > 30 THEN 0 ELSE (hi * 4096 + lo) \div Pow2(e)
    ELSE RoundEven(hi * Pow2(12 - s) + (lo \div Pow2(s)), lo % Pow2(s), Pow2(s))
             \div Pow2(e - s)

F32MulTruncLimbs(a, b, e) ==
    F32Trunc(a + (b \div 4096), b % 4096, e, BitLen(a + (b \div 4096)) - 12)

\* int flex_w = (int)(t * (float)remaining); the product of a negative
\* remaining mirrors the one of its absolute value.
F32MulTrunc(t, remaining) ==
    IF remaining < 0
    THEN -F32MulTruncLimbs((t.m \div 4096) * (-remaining),
                           (t.m % 4096) * (-remaining), t.e)
    ELSE F32MulTruncLimbs((t.m \div 4096) * remaining,
                          (t.m % 4096) * remaining, t.e)

\* The flex share of a child: (int)((flex_grow / grow_sum) * (float)remaining)
FlexShare(flex_grow, grow_sum, remaining) ==
    F32MulTrunc(F32Div(flex_grow, grow_sum), remaining)

\* ---------------------------------------------------------------------------
\* Layout
\* ---------------------------------------------------------------------------

\* The child list of a panel: first_child, then next_sibling until -1.
RECURSIVE ChainFrom(_, _)
ChainFrom(c, idx) ==
    IF idx = -1 THEN <<>>
    ELSE <<idx>> \o ChainFrom(c, PanelAt(c, idx).next_sibling)

Children(c, panel_idx) == ChainFrom(c, PanelAt(c, panel_idx).first_child)

\* "if (cw < 0) cw = 0"
ClampZero(v) == IF v < 0 THEN 0 ELSE v

\* The content box of a panel: origin inside the padding, clamped size.
ContentBox(p) ==
    [ x0 |-> p.rect.x + p.style.pad_l,
      y0 |-> p.rect.y + p.style.pad_t,
      cw |-> ClampZero(p.rect.w - (p.style.pad_l + p.style.pad_r)),
      ch |-> ClampZero(p.rect.h - (p.style.pad_t + p.style.pad_b)) ]

\* The fixed contribution of a preferred size: itself if >= 0, else 0.
Fixed(pref) == IF pref >= 0 THEN pref ELSE 0

\* The preferred size of a panel on the axis of direction dir.
PrefOn(p, dir) == IF dir = 0 THEN p.style.pref_w ELSE p.style.pref_h

\* First pass: the sums over the children kids[k..] on the axis dir.
RECURSIVE FixedSum(_, _, _, _)
FixedSum(c, kids, k, dir) ==
    IF k > Len(kids) THEN 0
    ELSE Fixed(PrefOn(PanelAt(c, kids[k]), dir)) + FixedSum(c, kids, k + 1, dir)

RECURSIVE GrowSum(_, _, _)
GrowSum(c, kids, k) ==
    IF k > Len(kids) THEN 0
    ELSE (IF PanelAt(c, kids[k]).style.flex_grow > 0
          THEN PanelAt(c, kids[k]).style.flex_grow ELSE 0)
             + GrowSum(c, kids, k + 1)

\* Remaining without the clamp of a negative remainder to 0.
Remaining_NoClamp(content, fixed_sum, gap, child_count) ==
    content - fixed_sum
        - (IF child_count > 1 THEN gap * (child_count - 1) ELSE 0)

\* remaining = content size - fixed_sum - gaps_total, clamped at 0
Remaining(content, fixed_sum, gap, child_count) ==
    ClampZero(content - fixed_sum
                  - (IF child_count > 1 THEN gap * (child_count - 1) ELSE 0))

\* ---------------------------------------------------------------------------
\* Single-precision arithmetic on grow factors that are not whole numbers:
\* a float is [m, e] as above, 0.0f is [m |-> 0, e |-> 0].
\* ---------------------------------------------------------------------------

F32Zero == [m |-> 0, e |-> 0]

\* The float nearest to s * 2^-e, s > 0.
F32Norm(s, e) ==
    LET bits == BitLen(s)
        sh   == bits - 24
        r    == RoundEven(s \div Pow2(sh), s % Pow2(sh), Pow2(sh))
    IN  IF bits <= 24 THEN [m |-> s * Pow2(24 - bits), e |-> e + 24 - bits]
        ELSE IF r = Pow2(24) THEN [m |-> Pow2(23), e |-> e - sh - 1]
        ELSE [m |-> r, e |-> e - sh]

\* grow_sum += child->style.flex_grow
F32Add(x, y) ==
    IF x.m = 0 THEN y
    ELSE IF y.m = 0 THEN x
    ELSE LET e == IF x.e > y.e THEN x.e ELSE y.e
         IN  F32Norm(x.m * Pow2(e - x.e) + y.m * Pow2(e - y.e), e)

\* float t = child->style.flex_grow / grow_sum, both positive floats
F32DivF(x, y) ==
    [m |-> F32DivScaled(x.m, y.m, 0).m,
     e |-> F32DivScaled(x.m, y.m, 0).e + x.e - y.e]

\* The flex share of a child whose grow factor is any positive float.
FlexShareF_RoundsUp(grow, grow_sum, remaining) ==
    IF F32MulTrunc(F32DivF(grow, grow_sum), remaining) < remaining
    THEN F32MulTrunc(F32DivF(grow, grow_sum), remaining) + 1
    ELSE remaining

FlexShareF(grow, grow_sum, remaining) ==
    F32MulTrunc(F32DivF(grow, grow_sum), remaining)

\* UI_LayoutRow, first pass over the children kids, each [pref, grow].
RECURSIVE RowFixedSum(_, _), RowGrowSum(_, _)
RowFixedSum(kids, k) ==
    IF k = 0 THEN 0 ELSE RowFixedSum(kids, k - 1) + Fixed(kids[k].pref)

RowGrowSum(kids, k) ==
    IF k = 0 THEN F32Zero
    ELSE IF kids[k].grow.m > 0
    THEN F32Add(RowGrowSum(kids, k - 1), kids[k].grow)
    ELSE RowGrowSum(kids, k - 1)

\* UI_LayoutRow, second pass: the widths of the children of a row of content
\* width cw.
RowWidths(cw, gap, kids) ==
    LET grow_sum  == RowGrowSum(kids, Len(kids))
        remaining == Remaining(cw, RowFixedSum(kids, Len(kids)), gap, Len(kids))
    IN  [k \in 1..Len(kids) |->
            Fixed(kids[k].pref)
                + (IF kids[k].grow.m > 0 /\ grow_sum.m > 0
                   THEN FlexShareF(kids[k].grow, grow_sum, remaining)
                   ELSE 0)]

\* The fixed part taken as the raw preferred size, sentinels included.
MainSize_RawPref(child, dir, grow_sum, remaining) ==
    PrefOn(child, dir)
        + (IF child.style.flex_grow > 0 /\ grow_sum > 0
           THEN FlexShare(child.style.flex_grow, grow_sum, remaining)
           ELSE 0)

\* The size added to the size the child's rect already holds.
MainSize_AddsOld(child, dir, grow_sum, remaining) ==
    (IF dir = 0 THEN child.rect.w ELSE child.rect.h)
        + Fixed(PrefOn(child, dir))
        + (IF child.style.flex_grow > 0 /\ grow_sum > 0
           THEN FlexShare(child.style.flex_grow, grow_sum, remaining)
           ELSE 0)

\* Second pass: the main-axis size of a child.
MainSize(child, dir, grow_sum, remaining) ==
    Fixed(PrefOn(child, dir))
        + (IF child.style.flex_grow > 0 /\ grow_sum > 0
           THEN FlexShare(child.style.flex_grow, grow_sum, remaining)
           ELSE 0)

\* Every child put at the content origin.
ChildRect_AtOrigin(box, dir, cursor, size) ==
    IF dir = 0
    THEN [x |-> box.x0, y |-> box.y0, w |-> size, h |-> box.ch]
    ELSE [x |-> box.x0, y |-> box.y0, w |-> box.cw, h |-> size]

\* The rect a row (dir 0) or column (dir 1) gives a child of main size size
\* at the cursor.
ChildRect(box, dir, cursor, size) ==
    IF dir = 0
    THEN [x |-> cursor, y |-> box.y0, w |-> size, h |-> box.ch]
    ELSE [x |-> box.x0, y |-> cursor, w |-> box.cw, h |-> size]

\* Second pass: the rects of the children kids[k..], the cursor advancing by
\* the child's size plus the gap.
RECURSIVE Place(_, _, _, _, _, _, _, _, _)
Place(c, kids, k, dir, box, gap, grow_sum, remaining, cursor) ==
    IF k > Len(kids) \/ cursor \notin Int THEN c
    ELSE Place([c EXCEPT !.panels[kids[k] + 1].rect =
                    ChildRect(box, dir, cursor,
                              MainSize(PanelAt(c, kids[k]), dir, grow_sum,
                                       remaining))],
               kids, k + 1, dir, box, gap, grow_sum, remaining,
               cursor + MainSize(PanelAt(c, kids[k]), dir, grow_sum, remaining)
                   + gap)

\* UI_LayoutRow (dir 0) and UI_LayoutColumn (dir 1), from the child list, the
\* content box and the sums of the first pass on.
LayoutAxis(c, kids, dir, box, gap, grow_sum, remaining) ==
    Place(c, kids, 1, dir, box, gap, grow_sum, remaining,
          IF dir = 0 THEN box.x0 ELSE box.y0)

LayoutKids(c, p, kids, dir) ==
    LayoutAxis(c, kids, dir, ContentBox(p), p.style.gap, GrowSum(c, kids, 1),
               Remaining(IF dir = 0 THEN ContentBox(p).cw ELSE ContentBox(p).ch,
                         FixedSum(c, kids, 1, dir), p.style.gap, Len(kids)))

\* UI_LayoutRow
UI_LayoutRow(c, panel_idx) ==
    LayoutKids(c, PanelAt(c, panel_idx), Children(c, panel_idx), 0)

\* UI_LayoutColumn
UI_LayoutColumn(c, panel_idx) ==
    LayoutKids(c, PanelAt(c, panel_idx), Children(c, panel_idx), 1)

\* UI_LayoutPanelTree, the children laid out by the panel's direction.
LayoutOwn(c, panel_idx) ==
    IF PanelAt(c, panel_idx).style.direction = 0
    THEN UI_LayoutRow(c, panel_idx)
    ELSE IF PanelAt(c, panel_idx).style.direction = 1
    THEN UI_LayoutColumn(c, panel_idx)
    ELSE c

\* UI_LayoutPanelTree; LayoutEach is its loop over the children kids[k..].
RECURSIVE UI_LayoutPanelTree(_, _), LayoutEach(_, _, _)
UI_LayoutPanelTree(c, panel_idx) ==
    IF PanelAt(c, panel_idx).first_child = -1 THEN c
    ELSE LayoutEach(LayoutOwn(c, panel_idx), Children(c, panel_idx), 1)

LayoutEach(c, kids, k) ==
    IF k > Len(kids) THEN c
    ELSE LayoutEach(UI_LayoutPanelTree(c, kids[k]), kids, k + 1)

\* ---------------------------------------------------------------------------
\* Size-override store
\* ---------------------------------------------------------------------------

\* The index of the first override of panel_id in the table, or 0.
FindOverride(c, panel_id) ==
    LET hits == {i \in 1..Len(c.size_overrides) :
                     c.size_overrides[i].panel_id = panel_id}
    IN  IF hits = {} THEN 0 ELSE CHOOSE i \in hits : \A j \in hits : i <= j

\* The store that gives way on overflow: the oldest entry goes, the new one
\* comes in.
SetOverrideAt_OldestGoes(c, i, panel_id, pref_w, pref_h) ==
    IF i # 0
    THEN [c EXCEPT !.size_overrides[i].pref_w = IF pref_w >= 0 THEN pref_w ELSE @,
                   !.size_overrides[i].pref_h = IF pref_h >= 0 THEN pref_h ELSE @]
    ELSE [c EXCEPT !.size_overrides =
              Append(IF Len(@) < UI_MAX_SIZE_OVERRIDES THEN @ ELSE Tail(@),
                     [panel_id |-> panel_id,
                      pref_w |-> pref_w, pref_h |-> pref_h])]

\* UI_Set_Size_Override after the search: i is the entry found (0: none).
SetOverrideAt(c, i, panel_id, pref_w, pref_h) ==
    IF i # 0
    THEN [c EXCEPT !.size_overrides[i].pref_w = IF pref_w >= 0 THEN pref_w ELSE @,
                   !.size_overrides[i].pref_h = IF pref_h >= 0 THEN pref_h ELSE @]
    ELSE IF Len(c.size_overrides) < UI_MAX_SIZE_OVERRIDES
    THEN [c EXCEPT !.size_overrides =
              Append(@, [panel_id |-> panel_id,
                         pref_w |-> pref_w, pref_h |-> pref_h])]
    ELSE c

\* UI_Set_Size_Override
UI_Set_Size_Override(c, panel_id, pref_w, pref_h) ==
    SetOverrideAt(c, FindOverride(c, panel_id), panel_id, pref_w, pref_h)

\* UI_Get_Size_Override_W
UI_Get_Size_Override_W(c, panel_id) ==
    IF FindOverride(c, panel_id) = 0 THEN -1
    ELSE c.size_overrides[FindOverride(c, panel_id)].pref_w

\* UI_Get_Size_Override_H
UI_Get_Size_Override_H(c, panel_id) ==
    IF FindOverride(c, panel_id) = 0 THEN -1
    ELSE c.size_overrides[FindOverride(c, panel_id)].pref_h

\* ---------------------------------------------------------------------------
\* Builder helpers and widgets
\* ---------------------------------------------------------------------------

\* UI_Panel_Set_Color
UI_Panel_Set_Color(c, color) ==
    IF c.parent_stack_count = 0 THEN c
    ELSE [c EXCEPT !.panels[StackTop(c) + 1].style.color = color]

\* UI_Panel_Set_Padding
UI_Panel_Set_Padding(c, l, t, r, b) ==
    IF c.parent_stack_count = 0 THEN c
    ELSE [c EXCEPT !.panels[StackTop(c) + 1].style.pad_l = l,
                   !.panels[StackTop(c) + 1].style.pad_t = t,
                   !.panels[StackTop(c) + 1].style.pad_r = r,
                   !.panels[StackTop(c) + 1].style.pad_b = b]

\* UI_Panel_Set_Padding_Uniform
UI_Panel_Set_Padding_Uniform(c, padding) ==
    UI_Panel_Set_Padding(c, padding, padding, padding, padding)

\* UI_Panel_Set_Gap
UI_Panel_Set_Gap(c, gap) ==
    IF c.parent_stack_count = 0 THEN c
    ELSE [c EXCEPT !.panels[StackTop(c) + 1].style.gap = gap]

\* UI_Panel_Set_Resizable
UI_Panel_Set_Resizable(c, resizable, hitbox_padding) ==
    IF c.parent_stack_count = 0 THEN c
    ELSE [c EXCEPT !.panels[StackTop(c) + 1].style.resizable = resizable,
                   !.panels[StackTop(c) + 1].style.resize_hitbox_padding =
                       hitbox_padding]

\* The tail shared by UI_BeginPanel and UI_Panel_Resizable: padding if > 0,
\* gap if >= 0, colour if not 0.
PadGapColor(c, padding, gap, color) ==
    LET c1 == IF padding > 0 THEN UI_Panel_Set_Padding_Uniform(c, padding) ELSE c
        c2 == IF gap >= 0 THEN UI_Panel_Set_Gap(c1, gap) ELSE c1
    IN  IF color # 0 THEN UI_Panel_Set_Color(c2, color) ELSE c2

\* UI_BeginPanel (the one-call helper)
UI_BeginPanel(c, id, direction, w, h, padding, gap, color) ==
    LET c1 == UI_Panel_Set_Direction(UI_Begin_Panel(c, id), direction)
    IN  PadGapColor(IF w >= 0 \/ h >= 0 THEN UI_Panel_Set_Size(c1, w, h) ELSE c1,
                    padding, gap, color)

\* UI_Panel_Resizable, the choice between flex-grow and fixed size from the
\* sizes w, h (override or default) and the defaults.
ResizableSize(c, w, h, default_w, default_h) ==
    IF w = -2 \/ (w < 0 /\ default_w = -2)
    THEN UI_Panel_Set_Grow(
             IF h >= 0 /\ h # -2 THEN UI_Panel_Set_Size(c, -1, h) ELSE c, 1)
    ELSE IF h = -2 \/ (h < 0 /\ default_h = -2)
    THEN UI_Panel_Set_Grow(
             IF w >= 0 THEN UI_Panel_Set_Size(c, w, -1) ELSE c, 1)
    ELSE IF w >= 0 \/ h >= 0 THEN UI_Panel_Set_Size(c, w, h)
    ELSE c

\* UI_Panel_Resizable on the context c1 left by its UI_Begin_Panel and
\* UI_Panel_Set_Direction calls; the override is looked up by the hash of
\* the name, not by the ID the panel got.
ResizableWithOverride(c1, panel_id, default_w, default_h, padding, gap, color) ==
    PadGapColor(
        ResizableSize(c1,
            IF UI_Get_Size_Override_W(c1, panel_id) < 0 THEN default_w
            ELSE UI_Get_Size_Override_W(c1, panel_id),
            IF UI_Get_Size_Override_H(c1, panel_id) < 0 THEN default_h
            ELSE UI_Get_Size_Override_H(c1, panel_id),
            default_w, default_h),
        padding, gap, color)

\* UI_Panel_Resizable
UI_Panel_Resizable(c, id, direction, default_w, default_h, padding, gap, color) ==
    ResizableWithOverride(
        UI_Panel_Set_Direction(UI_Begin_Panel(c, id), direction),
        UI_HashString(id), default_w, default_h, padding, gap, color)

\* UI_Divider_Ex; orientation 0 is UI_DIVIDER_VERTICAL.
UI_Divider_Ex(c, id, orientation, color, hitbox_padding) ==
    UI_End_Panel(
        UI_Panel_Set_Resizable(
            UI_Panel_Set_Color(
                IF orientation = 0
                THEN UI_Panel_Set_Size(UI_Begin_Panel(c, id), 1, -1)
                ELSE UI_Panel_Set_Size(UI_Begin_Panel(c, id), -1, 1),
                color),
            1, hitbox_padding))

\* UI_Divider
UI_Divider(c, id, orientation) ==
    UI_Divider_Ex(c, id, orientation, Color(13311, 65535), 4)

\* UI_Begin_Panel_With_Id
UI_Begin_Panel_With_Id(c, id) == BeginPanelNew(UI_NewPanel(c, id))

\* UI_Default_Panel_Style: zeroed, then the defaults.
UI_Default_Panel_Style ==
    [ color |-> Color(65314, 8738),
      min_w |-> 0, max_w |-> INT32_MAX,
      min_h |-> 0, max_h |-> INT32_MAX,
      pref_w |-> -1, pref_h |-> -1,
      flex_grow |-> 0,
      direction |-> 0, gap |-> 0,
      pad_l |-> 0, pad_t |-> 0, pad_r |-> 0, pad_b |-> 0,
      resizable |-> 0, resize_hitbox_padding |-> 0 ]

\* UI_Begin_Panel_Ex: the style is copied over the panel on the stack top.
UI_Begin_Panel_Ex(c, id_str, style) ==
    LET c1 == UI_Begin_Panel(c, id_str)
    IN  IF c1.parent_stack_count > 0
        THEN [c1 EXCEPT !.panels[StackTop(c1) + 1].style = style]
        ELSE c1

\* ---------------------------------------------------------------------------
\* Interaction: hit-testing, hot/active widgets, divider drag
\* ---------------------------------------------------------------------------

\* UI_Find_Panel_By_Id: the first panel with the ID, or -1.
UI_Find_Panel_By_Id(c, id) ==
    LET hits == {i \in 0..(panel_count(c) - 1) : PanelAt(c, i).id = id}
    IN  IF hits = {} THEN -1 ELSE CHOOSE i \in hits : \A j \in hits : i <= j

\* UI_Get_Resize_Direction: the parent's layout direction, -1 with no parent.
UI_Get_Resize_Direction(c, panel_idx) ==
    IF PanelAt(c, panel_idx).parent < 0 THEN -1
    ELSE PanelAt(c, PanelAt(c, panel_idx).parent).style.direction

\* UI_Get_Expanded_Rect
UI_Get_Expanded_Rect(rect, padding) ==
    [x |-> rect.x - padding, y |-> rect.y - padding,
     w |-> rect.w + padding * 2, h |-> rect.h + padding * 2]

\* The element before idx in the child list kids, or -1.
PrevIn(kids, idx) ==
    LET at == {k \in 1..Len(kids) : kids[k] = idx}
    IN  IF at = {} THEN -1
        ELSE IF (CHOOSE k \in at : TRUE) = 1 THEN -1
        ELSE kids[(CHOOSE k \in at : TRUE) - 1]

\* UI_Find_Adjacent_Panel: the sibling just before the divider.
UI_Find_Adjacent_Panel(c, divider_idx) ==
    IF PanelAt(c, divider_idx).parent < 0 THEN -1
    ELSE PrevIn(Children(c, PanelAt(c, divider_idx).parent), divider_idx)

\* UI_Find_Next_Panel: the sibling just after the divider.
UI_Find_Next_Panel(c, divider_idx) == PanelAt(c, divider_idx).next_sibling

\* The rect taken with its right and bottom edges.
UI_Is_Point_In_Rect_Closed(x, y, rect) ==
    /\ x >= rect.x /\ x <= rect.x + rect.w
    /\ y >= rect.y /\ y <= rect.y + rect.h

\* UI_Is_Point_In_Rect
UI_Is_Point_In_Rect(x, y, rect) ==
    /\ x >= rect.x /\ x < rect.x + rect.w
    /\ y >= rect.y /\ y < rect.y + rect.h

\* UI_Is_Hovered
UI_Is_Hovered(c, rect) ==
    UI_Is_Point_In_Rect(c.input.mouse_x, c.input.mouse_y, rect)

\* The minimum and maximum of a panel on the resize axis.
MinOn(p, dir) == IF dir = 0 THEN p.style.min_w ELSE p.style.min_h
MaxOn(p, dir) == IF dir = 0 THEN p.style.max_w ELSE p.style.max_h

\* The left clamp that leaves the right size as proposed.
ClampLeft_KeepsRight(sz, resolved, min, max, start_left, start_right) ==
    IF ~resolved THEN sz
    ELSE IF sz.left < min THEN [sz EXCEPT !.left = min]
    ELSE IF sz.left > max THEN [sz EXCEPT !.left = max]
    ELSE sz

\* UI_Update_Divider_Resize, the left panel's constraints applied to the
\* proposed sizes sz = [left, right]; resolved tells whether the panel exists.
ClampLeft(sz, resolved, min, max, start_left, start_right) ==
    IF ~resolved THEN sz
    ELSE IF sz.left < min
    THEN [left |-> min, right |-> start_right - (min - start_left)]
    ELSE IF sz.left > max
    THEN [left |-> max, right |-> start_right - (max - start_left)]
    ELSE sz

\* The right clamp that knows no maximum.
ClampRight_MinOnly(sz, resolved, min, max, start_left, start_right) ==
    IF ~resolved THEN sz
    ELSE IF sz.right < min
    THEN [left |-> start_left + (start_right - min), right |-> min]
    ELSE sz

\* The right clamp that leaves the left size as the left clamp made it.
ClampRight_KeepsLeft(sz, resolved, min, max, start_left, start_right) ==
    IF ~resolved THEN sz
    ELSE IF sz.right < min THEN [sz EXCEPT !.right = min]
    ELSE IF sz.right > max THEN [sz EXCEPT !.right = max]
    ELSE sz

\* UI_Update_Divider_Resize, the right panel's constraints applied next.
ClampRight(sz, resolved, min, max, start_left, start_right) ==
    IF ~resolved THEN sz
    ELSE IF sz.right < min
    THEN [left |-> start_left + (start_right - min), right |-> min]
    ELSE IF sz.right > max
    THEN [left |-> start_left + (start_right - max), right |-> max]
    ELSE sz

\* The write that stores the size as the override of both axes.
WriteSize_BothAxes(c, idx, id, resize_dir, size) ==
    IF idx < 0 THEN c
    ELSE LET o == UI_Set_Size_Override(c, id, size, size)
         IN  IF resize_dir = 0
             THEN [o EXCEPT !.panels[idx + 1].style.pref_w = size,
                            !.panels[idx + 1].style.flex_grow = 0]
             ELSE [o EXCEPT !.panels[idx + 1].style.pref_h = size,
                            !.panels[idx + 1].style.flex_grow = 0]

\* UI_Update_Divider_Resize, the final size written for one panel: the
\* override, the preferred size on the resize axis, and flex_grow = 0.
WriteSize(c, idx, id, resize_dir, size) ==
    IF idx < 0 THEN c
    ELSE LET o == IF resize_dir = 0
                  THEN UI_Set_Size_Override(c, id, size, -1)
                  ELSE UI_Set_Size_Override(c, id, -1, size)
         IN  IF resize_dir = 0
             THEN [o EXCEPT !.panels[idx + 1].style.pref_w = size,
                            !.panels[idx + 1].style.flex_grow = 0]
             ELSE [o EXCEPT !.panels[idx + 1].style.pref_h = size,
                            !.panels[idx + 1].style.flex_grow = 0]

\* The sizes with the right panel's constraints applied first and the left
\* panel's last.
ResizeSizes_LeftLast(c, left_idx, right_idx, resize_dir) ==
    LET it    == c.interaction
        pos   == IF resize_dir = 0 THEN c.input.mouse_x ELSE c.input.mouse_y
        delta == pos - it.drag_start_pos
        prop  == [left  |-> it.drag_start_size_left + delta,
                  right |-> it.drag_start_size_right - delta]
        r     == IF right_idx >= 0
                 THEN ClampRight(prop, TRUE,
                                 MinOn(PanelAt(c, right_idx), resize_dir),
                                 MaxOn(PanelAt(c, right_idx), resize_dir),
                                 it.drag_start_size_left,
                                 it.drag_start_size_right)
                 ELSE prop
    IN  IF left_idx >= 0
        THEN ClampLeft(r, TRUE,
                       MinOn(PanelAt(c, left_idx), resize_dir),
                       MaxOn(PanelAt(c, left_idx), resize_dir),
                       it.drag_start_size_left, it.drag_start_size_right)
        ELSE r

\* The sizes UI_Update_Divider_Resize computes for the panels at left_idx and
\* right_idx (-1: not resolved) on the axis resize_dir.
ResizeSizes(c, left_idx, right_idx, resize_dir) ==
    LET it    == c.interaction
        pos   == IF resize_dir = 0 THEN c.input.mouse_x ELSE c.input.mouse_y
        delta == pos - it.drag_start_pos
        prop  == [left  |-> it.drag_start_size_left + delta,
                  right |-> it.drag_start_size_right - delta]
        l     == IF left_idx >= 0
                 THEN ClampLeft(prop, TRUE,
                                MinOn(PanelAt(c, left_idx), resize_dir),
                                MaxOn(PanelAt(c, left_idx), resize_dir),
                                it.drag_start_size_left,
                                it.drag_start_size_right)
                 ELSE prop
    IN  IF right_idx >= 0
        THEN ClampRight(l, TRUE,
                        MinOn(PanelAt(c, right_idx), resize_dir),
                        MaxOn(PanelAt(c, right_idx), resize_dir),
                        it.drag_start_size_left, it.drag_start_size_right)
        ELSE l

\* The panel a resize target ID resolves to in this frame's tree (-1: none).
ResolveTarget(c, id) == IF id # 0 THEN UI_Find_Panel_By_Id(c, id) ELSE -1

ResizeWith(c, left_idx, right_idx, resize_dir, sz) ==
    WriteSize(WriteSize(c, left_idx, c.interaction.resize_target_left_id,
                        resize_dir, sz.left),
              right_idx, c.interaction.resize_target_right_id, resize_dir,
              sz.right)

\* The resize that is skipped when either panel is not resolved.
ResizeTargets_NeedsBoth(c, left_idx, right_idx, divider_idx) ==
    IF left_idx < 0 \/ right_idx < 0 THEN c
    ELSE IF divider_idx < 0 THEN c
    ELSE IF UI_Get_Resize_Direction(c, divider_idx) < 0 THEN c
    ELSE ResizeWith(c, left_idx, right_idx,
                    UI_Get_Resize_Direction(c, divider_idx),
                    ResizeSizes(c, left_idx, right_idx,
                                UI_Get_Resize_Direction(c, divider_idx)))

ResizeTargets(c, left_idx, right_idx, divider_idx) ==
    IF left_idx < 0 /\ right_idx < 0 THEN c
    ELSE IF divider_idx < 0 THEN c
    ELSE IF UI_Get_Resize_Direction(c, divider_idx) < 0 THEN c
    ELSE ResizeWith(c, left_idx, right_idx,
                    UI_Get_Resize_Direction(c, divider_idx),
                    ResizeSizes(c, left_idx, right_idx,
                                UI_Get_Resize_Direction(c, divider_idx)))

\* The resize step that measures each frame from the frame before: it
\* takes the pointer and the sizes it wrote as the new start of the drag.
UI_Update_Divider_Resize_Rebased(c) ==
    IF c.interaction.dragging_divider = 0 THEN c
    ELSE LET left_idx  == ResolveTarget(c, c.interaction.resize_target_left_id)
             right_idx == ResolveTarget(c, c.interaction.resize_target_right_id)
             d  == UI_Find_Panel_By_Id(c, c.interaction.dragging_divider)
             r  == ResizeTargets(c, left_idx, right_idx, d)
             rd == IF d >= 0 THEN UI_Get_Resize_Direction(c, d) ELSE -1
         IN  IF (left_idx < 0 /\ right_idx < 0) \/ rd < 0 THEN r
             ELSE [r EXCEPT
                     !.interaction.drag_start_pos =
                         IF rd = 0 THEN c.input.mouse_x ELSE c.input.mouse_y,
                     !.interaction.drag_start_size_left =
                         ResizeSizes(c, left_idx, right_idx, rd).left,
                     !.interaction.drag_start_size_right =
                         ResizeSizes(c, left_idx, right_idx, rd).right]

\* UI_Update_Divider_Resize
UI_Update_Divider_Resize(c) ==
    IF c.interaction.dragging_divider = 0 THEN c
    ELSE ResizeTargets(c,
             ResolveTarget(c, c.interaction.resize_target_left_id),
             ResolveTarget(c, c.interaction.resize_target_right_id),
             UI_Find_Panel_By_Id(c, c.interaction.dragging_divider))

\* The hit test of one panel in a pass (resizable = 0: first pass, plain
\* rect; resizable = 1: second pass, expanded rect); labels never hit.
Hit(c, p, resizable) ==
    /\ p.is_label = 0
    /\ (p.style.resizable # 0) = (resizable # 0)
    /\ UI_Is_Hovered(c, IF resizable # 0
                        THEN UI_Get_Expanded_Rect(p.rect,
                                 p.style.resize_hitbox_padding)
                        ELSE p.rect)

\* UI_Update_Panel_Interaction_NonResizable / _Resizable: the hot widget
\* after the walk of the subtree of panel_idx, hot being the one before it.
RECURSIVE HotWalk(_, _, _, _), HotWalkEach(_, _, _, _, _)
HotWalk(c, panel_idx, resizable, hot) ==
    HotWalkEach(c, Children(c, panel_idx), 1, resizable,
                IF Hit(c, PanelAt(c, panel_idx), resizable)
                THEN PanelAt(c, panel_idx).id ELSE hot)

HotWalkEach(c, kids, k, resizable, hot) ==
    IF k > Len(kids) \/ hot \notin Int THEN hot
    ELSE HotWalkEach(c, kids, k + 1, resizable,
                     HotWalk(c, kids[k], resizable, hot))

\* The two passes in the other order.
HotWidget_OrdinaryLast(c) ==
    IF panel_count(c) > 0 THEN HotWalk(c, 0, 0, HotWalk(c, 0, 1, 0)) ELSE 0

\* UI_Update_Interaction, the two hit-test passes from a cleared hot widget.
HotWidget(c) ==
    IF panel_count(c) > 0 THEN HotWalk(c, 0, 1, HotWalk(c, 0, 0, 0)) ELSE 0

\* The drag start that records the pointer x and the widths on every axis.
StartDrag_AlwaysX(c, hot_idx, left_idx, right_idx, resize_dir) ==
    [c EXCEPT !.interaction.dragging_divider = c.interaction.hot_widget,
              !.interaction.drag_start_pos = c.input.mouse_x,
              !.interaction.resize_target_left_id =
                  IF left_idx >= 0 THEN PanelAt(c, left_idx).id ELSE 0,
              !.interaction.drag_start_size_left =
                  IF left_idx < 0 THEN 0 ELSE PanelAt(c, left_idx).rect.w,
              !.interaction.resize_target_right_id =
                  IF right_idx >= 0 THEN PanelAt(c, right_idx).id ELSE 0,
              !.interaction.drag_start_size_right =
                  IF right_idx < 0 THEN 0 ELSE PanelAt(c, right_idx).rect.w]

\* UI_Update_Interaction, drag start on the divider at hot_idx.
StartDrag(c, hot_idx, left_idx, right_idx, resize_dir) ==
    [c EXCEPT !.interaction.dragging_divider = c.interaction.hot_widget,
              !.interaction.drag_start_pos =
                  IF resize_dir = 0 THEN c.input.mouse_x ELSE c.input.mouse_y,
              !.interaction.resize_target_left_id =
                  IF left_idx >= 0 THEN PanelAt(c, left_idx).id ELSE 0,
              !.interaction.drag_start_size_left =
                  IF left_idx < 0 THEN 0
                  ELSE IF resize_dir = 0 THEN PanelAt(c, left_idx).rect.w
                  ELSE PanelAt(c, left_idx).rect.h,
              !.interaction.resize_target_right_id =
                  IF right_idx >= 0 THEN PanelAt(c, right_idx).id ELSE 0,
              !.interaction.drag_start_size_right =
                  IF right_idx < 0 THEN 0
                  ELSE IF resize_dir = 0 THEN PanelAt(c, right_idx).rect.w
                  ELSE PanelAt(c, right_idx).rect.h]

\* The press edge that makes every hot widget the active one.
OnPressed_AlwaysActive(c, hot_idx) ==
    IF c.input.mouse_pressed = 0 \/ c.interaction.hot_widget = 0 THEN c
    ELSE IF hot_idx >= 0 /\ PanelAt(c, hot_idx).style.resizable # 0
    THEN [StartDrag(c, hot_idx, UI_Find_Adjacent_Panel(c, hot_idx),
                    UI_Find_Next_Panel(c, hot_idx),
                    UI_Get_Resize_Direction(c, hot_idx))
              EXCEPT !.interaction.active_widget = c.interaction.hot_widget]
    ELSE [c EXCEPT !.interaction.active_widget = c.interaction.hot_widget]

\* The press block that runs in every frame that samples the button down,
\* the frames after the press edge included.
OnPressed_HeldButton(c, hot_idx) ==
    IF c.input.mouse_down = 0 \/ c.interaction.hot_widget = 0 THEN c
    ELSE IF hot_idx >= 0 /\ PanelAt(c, hot_idx).style.resizable # 0
    THEN StartDrag(c, hot_idx, UI_Find_Adjacent_Panel(c, hot_idx),
                   UI_Find_Next_Panel(c, hot_idx),
                   UI_Get_Resize_Direction(c, hot_idx))
    ELSE [c EXCEPT !.interaction.active_widget = c.interaction.hot_widget]

\* UI_Update_Interaction, the press edge.
OnPressed(c, hot_idx) ==
    IF c.input.mouse_pressed = 0 \/ c.interaction.hot_widget = 0 THEN c
    ELSE IF hot_idx >= 0 /\ PanelAt(c, hot_idx).style.resizable # 0
    THEN StartDrag(c, hot_idx, UI_Find_Adjacent_Panel(c, hot_idx),
                   UI_Find_Next_Panel(c, hot_idx),
                   UI_Get_Resize_Direction(c, hot_idx))
    ELSE [c EXCEPT !.interaction.active_widget = c.interaction.hot_widget]

\* The release edge that clears the dragged divider and nothing else.
OnReleased_KeepsTargets(c) ==
    IF c.input.mouse_released = 0 THEN c
    ELSE IF c.interaction.dragging_divider # 0
    THEN [c EXCEPT !.interaction.dragging_divider = 0]
    ELSE [c EXCEPT !.interaction.active_widget = 0]

\* The release edge that ends a drag and leaves a pressed widget active.
OnReleased_KeepsActive(c) ==
    IF c.input.mouse_released = 0 THEN c
    ELSE IF c.interaction.dragging_divider # 0
    THEN [c EXCEPT !.interaction.dragging_divider = 0,
                   !.interaction.resize_target_left_id = 0,
                   !.interaction.resize_target_right_id = 0,
                   !.interaction.drag_start_size_left = 0,
                   !.interaction.drag_start_size_right = 0,
                   !.interaction.drag_start_pos = 0]
    ELSE c

\* UI_Update_Interaction, the release edge.
OnReleased(c) ==
    IF c.input.mouse_released = 0 THEN c
    ELSE IF c.interaction.dragging_divider # 0
    THEN [c EXCEPT !.interaction.dragging_divider = 0,
                   !.interaction.resize_target_left_id = 0,
                   !.interaction.resize_target_right_id = 0,
                   !.interaction.drag_start_size_left = 0,
                   !.interaction.drag_start_size_right = 0,
                   !.interaction.drag_start_pos = 0]
    ELSE [c EXCEPT !.interaction.active_widget = 0]

HitTest(c) == [c EXCEPT !.interaction.hot_widget = HotWidget(c)]

PressRelease(c) ==
    OnReleased(OnPressed(c, UI_Find_Panel_By_Id(c, c.interaction.hot_widget)))

\* UI_Update_Interaction
UI_Update_Interaction(c) == PressRelease(HitTest(UI_Update_Divider_Resize(c)))

\* UI_Input_EndFrame
UI_Input_EndFrame(c) == [c EXCEPT !.input_prev = c.input]

\* UI_Input_ProcessMouseMove
UI_Input_ProcessMouseMove(c, x, y) ==
    [c EXCEPT !.input.mouse_x = x, !.input.mouse_y = y]

\* UI_Input_ProcessMouseButton, for UI_MOUSE_LEFT
UI_Input_ProcessMouseButton(c, down) == [c EXCEPT !.input.mouse_down = down]

\* UI_Input_ProcessMouseWheel; the deltas are whole notches.
UI_Input_ProcessMouseWheel(c, delta) ==
    [c EXCEPT !.input.mouse_wheel_delta = @ + delta]

\* UI_Input_ProcessChar
UI_Input_ProcessChar(c, ch) ==
    IF c.input.char_count < UI_MAX_CHAR_BUFFER
    THEN [c EXCEPT !.input.char_buffer[c.input.char_count] = ch,
                   !.input.char_count = @ + 1,
                   !.input.last_char = ch]
    ELSE [c EXCEPT !.input.last_char = ch]

\* UI_Get_Mouse_Wheel
UI_Get_Mouse_Wheel(c) == c.input.mouse_wheel_delta

\* UI_Button, the panel: background by state, fixed height, padding, the
\* text as a label inside.
ButtonPanel(c, id, text, bg_color, text_color) ==
    UI_End_Panel(
        UI_Label(
            UI_Panel_Set_Direction(
                UI_Panel_Set_Padding(
                    UI_Panel_Set_Color(
                        UI_Panel_Set_Size(UI_Begin_Panel_With_Id(c, id), -1, 30),
                        bg_color),
                    8, 4, 8, 4),
                0),
            text, text_color))

\* A button that reports a click in every frame that finds it hot and
\* active, the frames that hold the mouse button down included.
ButtonStates_ClicksWhileHeld(g, text, is_hot, is_active, released) ==
    [ctx |-> ButtonPanel(
                 IF is_active /\ is_hot
                 THEN [g.ctx EXCEPT !.last_button_clicked = CopyText(text)]
                 ELSE g.ctx,
                 g.id, text,
                 IF is_active THEN Color(65306, 24500)
                 ELSE IF is_hot THEN Color(65333, 34020)
                 ELSE Color(65322, 10798),
                 IF is_active \/ is_hot THEN -1 ELSE Color(65450, 43690)),
     clicked |-> IF is_active /\ is_hot THEN 1 ELSE 0]

\* UI_Button from the result g of UI_Generate_Id on: hot and active are the
\* states the previous frame left, released is this frame's release edge.
ButtonStates(g, text, is_hot, is_active, released) ==
    [ctx |-> ButtonPanel(
                 IF is_active /\ released /\ is_hot
                 THEN [g.ctx EXCEPT !.last_button_clicked = CopyText(text)]
                 ELSE g.ctx,
                 g.id, text,
                 IF is_active THEN Color(65306, 24500)
                 ELSE IF is_hot THEN Color(65333, 34020)
                 ELSE Color(65322, 10798),
                 IF is_active \/ is_hot THEN -1 ELSE Color(65450, 43690)),
     clicked |-> IF is_active /\ released /\ is_hot THEN 1 ELSE 0]

ButtonWithId(g, text) ==
    ButtonStates(g, text,
                 g.ctx.interaction.hot_widget = g.id,
                 g.ctx.interaction.active_widget_prev = g.id,
                 g.ctx.input.mouse_released # 0)

\* UI_Button: the context after the call and the value returned.
UI_Button(c, text) == ButtonWithId(UI_Generate_Id(c, text), text)

\* ---------------------------------------------------------------------------
\* Emitter
\* ---------------------------------------------------------------------------

\* The render list UI_BeginFrame leaves: zeroed; the counts are the lengths.
EmptyList == [rectangles |-> <<>>, texts |-> <<>>]

\* A full list that lets the new rectangle take the place of the last.
UI_AddRectangle_OverwritesLast(list, l, t, r, b, color) ==
    LET e == [left |-> l, top |-> t, right |-> r, bottom |-> b, color |-> color]
    IN  IF Len(list.rectangles) >= MAX_UI_RECTANGLES
        THEN [list EXCEPT !.rectangles[Len(list.rectangles)] = e]
        ELSE [list EXCEPT !.rectangles = Append(@, e)]

\* UI_AddRectangle
UI_AddRectangle(list, l, t, r, b, color) ==
    IF Len(list.rectangles) >= MAX_UI_RECTANGLES THEN list
    ELSE [list EXCEPT !.rectangles =
              Append(@, [left |-> l, top |-> t, right |-> r, bottom |-> b,
                         color |-> color])]

\* UI_AddText
UI_AddText(list, x, y, w, h, text_str, color, font_size, align_h, align_v) ==
    IF Len(list.texts) >= MAX_UI_TEXTS THEN list
    ELSE [list EXCEPT !.texts =
              Append(@, [x |-> x, y |-> y, w |-> w, h |-> h, color |-> color,
                         text |-> CopyText(text_str), font_size |-> font_size,
                         align_h |-> align_h, align_v |-> align_v])]

\* The emitter that skips every panel of colour 0.
EmitRect_SkipsColourZero(list, p) ==
    IF p.style.color # 0
    THEN UI_AddRectangle(list, p.rect.x, p.rect.y, p.rect.x + p.rect.w,
                         p.rect.y + p.rect.h, p.style.color)
    ELSE list

\* UI_EmitPanels, the rectangle of panel p.
EmitRect(list, p) ==
    IF ~(p.is_label # 0 /\ p.style.color = 0)
    THEN UI_AddRectangle(list, p.rect.x, p.rect.y, p.rect.x + p.rect.w,
                         p.rect.y + p.rect.h, p.style.color)
    ELSE list

\* UI_EmitPanels, the text of panel p; 0 and 1 are UI_ALIGN_START and
\* UI_ALIGN_CENTER.
EmitText(list, p) ==
    IF p.is_label # 0 /\ p.label_text # <<>>
    THEN UI_AddText(list, p.rect.x, p.rect.y, p.rect.w, p.rect.h,
                    p.label_text, p.label_color, 14, 0, 1)
    ELSE list

\* UI_EmitPanels: the panel, then its children in order.
RECURSIVE UI_EmitPanels(_, _, _), EmitEach(_, _, _, _)
UI_EmitPanels(c, list, panel_idx) ==
    EmitEach(c, EmitText(EmitRect(list, PanelAt(c, panel_idx)),
                         PanelAt(c, panel_idx)),
             Children(c, panel_idx), 1)

EmitEach(c, list, kids, k) ==
    IF k > Len(kids) THEN list
    ELSE EmitEach(c, UI_EmitPanels(c, list, kids[k]), kids, k + 1)

\* ---------------------------------------------------------------------------
\* Inputs
\* ---------------------------------------------------------------------------

\* "A"
NameA == <<65>>

\* "B"
NameB == <<66>>

\* "A##0"
NameA0 == <<65, 35, 35, 48>>

\* A name that fills a text buffer: MAX_UI_TEXT_LENGTH - 1 letters "a".
RECURSIVE Repeat(_, _)
Repeat(b, n) == IF n = 0 THEN <<>> ELSE Append(Repeat(b, n - 1), b)

LongName == Repeat(97, MAX_UI_TEXT_LENGTH - 1)

\* The names given to UI_Begin_Panel.
Names == {NameA, NameB, NameA0, LongName}

\* The texts given to UI_Label.
LabelTexts == {NameA}

\* The viewports given to UI_BeginFrame.
Viewports == {<<300, 50>>}

\* The bytes of the strings given to the hash in SpecHash: "A", "#", "0", "a"
\* and 0xC3 (a UTF-8 lead byte, negative as a char).
HashBytes == {65, 35, 48, 97, 195}

RECURSIVE StringsUpTo(_)
StringsUpTo(n) ==
    IF n = 0 THEN {<<>>}
    ELSE LET shorter == StringsUpTo(n - 1)
         IN  shorter \cup {Append(s, b) : s \in shorter, b \in HashBytes}

HashInputs ==
    StringsUpTo(MaxHashLen) \cup {NullStr, LongName, <<195>> \o LongName}

\* ---------------------------------------------------------------------------
\* State
\* ---------------------------------------------------------------------------

\* "D", "L", "R": the names of the divider and the panels beside it.
NameD == <<68>>

NameL == <<76>>

NameR == <<82>>

\* The children of a container scene: a preferred size (given for both axes)
\* and a grow factor each.
KidTypes ==
    [pref : {-1, 100}, grow : {0, 1}] \cup [pref : {-1}, grow : {5, 7}]

KidLists ==
    {<<a>> : a \in KidTypes}
        \cup {<<a, b>> : a, b \in KidTypes}
        \cup {<<a, b, b2>> : a, b, b2 \in KidTypes}

\* Container scenes: a root of direction dir with uniform padding pad, gap
\* gap and the children kids; with nest, the first child holds a panel too.
TreeScenes ==
    [kind : {"tree"}, dir : {0, 1}, pad : {0, 8}, gap : {0, 20, -30},
     kids : KidLists, nest : {FALSE}]
        \cup [kind : {"tree"}, dir : {0, 1}, pad : {0}, gap : {0},
              kids : {<<a, b>> : a, b \in [pref : {-1, 100}, grow : {0, 1}]},
              nest : {TRUE}]

\* Split scenes: a root of direction dir holding a resizable panel, a
\* divider and a second resizable panel; left is the default size asked for
\* the first panel, same_name gives both panels one name.
SplitScenes ==
    [kind : {"split"}, dir : {0},
     left : {<<240, -1>>, <<240, -2>>, <<-1, -1>>},
     same_name : BOOLEAN, styled : {FALSE}]
        \cup {[kind |-> "split", dir |-> 0, left |-> <<240, -1>>,
               same_name |-> FALSE, styled |-> TRUE]}

\* The style of the panels of a styled split scene: a column between 200
\* and 300 wide.
PanelStyle(pref_w, flex_grow) ==
    [UI_Default_Panel_Style EXCEPT !.direction = 1,
                                   !.min_w = 200, !.max_w = 300,
                                   !.pref_w = pref_w, !.flex_grow = flex_grow]

\* The button scene: a button as the only top-level widget.
ButtonScenes == {[kind |-> "button"]}

NoScene == [kind |-> "none"]

\* One child of a container scene.
BuildKid(c, kid, nested) ==
    LET c1 == UI_Panel_Set_Grow(
                  UI_Panel_Set_Size(UI_Begin_Panel(c, NameB), kid.pref, kid.pref),
                  kid.grow)
    IN  UI_End_Panel(IF nested
                     THEN UI_End_Panel(
                              UI_Panel_Set_Grow(UI_Begin_Panel(c1, NameA), 1))
                     ELSE c1)

RECURSIVE BuildKids(_, _, _, _)
BuildKids(c, kids, k, nest) ==
    IF k > Len(kids) THEN c
    ELSE BuildKids(BuildKid(c, kids[k], nest /\ k = 1), kids, k + 1, nest)

\* A container scene: UI_BeginPanel sets a gap only if >= 0, a negative gap
\* is set with UI_Panel_Set_Gap.
BuildTree(c, sc) ==
    LET r  == UI_BeginPanel(c, NameA, sc.dir, -1, -1, sc.pad, sc.gap, 0)
    IN  UI_End_Panel(
            BuildKids(IF sc.gap < 0 THEN UI_Panel_Set_Gap(r, sc.gap) ELSE r,
                      sc.kids, 1, sc.nest))

\* A split scene whose panels are begun with a style of their own: the first
\* 240 wide, the second growing.
BuildStyled(c, sc) ==
    UI_End_Panel(
        UI_End_Panel(
            UI_Begin_Panel_Ex(
                UI_Divider(
                    UI_End_Panel(
                        UI_Begin_Panel_Ex(
                            UI_BeginPanel(c, NameA, sc.dir, -1, -1, 0, 0, 0),
                            NameL, PanelStyle(sc.left[1], 0))),
                    NameD, sc.dir),
                NameR, PanelStyle(-1, 1))))

\* A split scene, as the main row of the application.
BuildSplit(c, sc) ==
    UI_End_Panel(
        UI_End_Panel(
            UI_Panel_Resizable(
                UI_Divider(
                    UI_End_Panel(
                        UI_Panel_Resizable(
                            UI_BeginPanel(c, NameA, sc.dir, -1, -1, 0, 0, 0),
                            IF sc.same_name THEN NameB ELSE NameL,
                            1, sc.left[1], sc.left[2], 0, 0, 0)),
                    NameD, sc.dir),
                IF sc.same_name THEN NameB ELSE NameR,
                1, -2, -1, 0, 0, 0)))

\* The hit scenes: a root row or column with up to three children, each an
\* ordinary panel "P" of 100 by 100 with limits 50 and 150, a divider "D", a
\* label "T" or a panel "X" with the colour 0.
HitKids ==
    { <<"P", "D", "P">>, <<"D", "P">>, <<"P", "D">>, <<"P", "D", "D">>,
      <<"T", "D", "P">>, <<"X", "T", "T">>, <<"P", "X", "T">> }

HitScenes == [kind : {"hit"}, dir : {0, 1}, kids : HitKids]

HitStyle ==
    [UI_Default_Panel_Style EXCEPT !.min_w = 50, !.max_w = 150,
                                   !.min_h = 50, !.max_h = 150,
                                   !.pref_w = 100, !.pref_h = 100]

\* The names of the children of a hit scene, by position.
HitNames == <<NameL, NameD, NameR>>

\* The style of a panel "N" built 100 wide that asks for at least 250.
WideMinStyle == [HitStyle EXCEPT !.min_w = 250, !.max_w = 300]

\* One child of a hit scene; a divider crosses the direction of the root.
BuildHitKid(c, type, name, dir) ==
    IF type = "P" THEN UI_End_Panel(UI_Begin_Panel_Ex(c, name, HitStyle))
    ELSE IF type = "N" THEN UI_End_Panel(UI_Begin_Panel_Ex(c, name, WideMinStyle))
    ELSE IF type = "D" THEN UI_Divider(c, name, dir)
    ELSE IF type = "T" THEN UI_Label(c, name, -1)
    ELSE UI_End_Panel(
             UI_Panel_Set_Size(
                 UI_Panel_Set_Color(UI_Begin_Panel(c, name), 0), 100, 100))

RECURSIVE BuildHitKids(_, _, _)
BuildHitKids(c, sc, k) ==
    IF k > Len(sc.kids) THEN c
    ELSE BuildHitKids(BuildHitKid(c, sc.kids[k], HitNames[k], sc.dir), sc, k + 1)

BuildHit(c, sc) ==
    UI_End_Panel(
        BuildHitKids(UI_BeginPanel(c, NameA, sc.dir, -1, -1, 0, 0, 0), sc, 1))

\* The drag scenes: a row of a panel "X", a divider and a panel "P" or "N",
\* under one of three sets of names.
NameE == <<69>>

DragScenes ==
    [kind : {"drag"}, right : {"P"},
     names : {<<NameL, NameD, NameR>>, <<NameB, NameD, NameE>>,
              <<NameB, NameD, NameR>>}]
        \cup [kind : {"drag"}, right : {"N"}, names : {<<NameL, NameD, NameR>>}]

BuildDrag(c, sc) ==
    UI_End_Panel(
        BuildHitKid(
            BuildHitKid(
                BuildHitKid(UI_BeginPanel(c, NameA, 0, -1, -1, 0, 0, 0),
                            "X", sc.names[1], 0),
                "D", sc.names[2], 0),
            sc.right, sc.names[3], 0))

\* The build of a scene: the context after it and what UI_Button returned.
BuildScene(c, sc) ==
    IF sc.kind = "tree" THEN [ctx |-> BuildTree(c, sc), clicked |-> 0]
    ELSE IF sc.kind = "drag" THEN [ctx |-> BuildDrag(c, sc), clicked |-> 0]
    ELSE IF sc.kind = "hit" THEN [ctx |-> BuildHit(c, sc), clicked |-> 0]
    ELSE IF sc.kind = "split" /\ sc.styled
    THEN [ctx |-> BuildStyled(c, sc), clicked |-> 0]
    ELSE IF sc.kind = "split" THEN [ctx |-> BuildSplit(c, sc), clicked |-> 0]
    ELSE UI_Button(c, NameA)

\* The viewports of the layout scenes and of the frames.
LayoutViewports == {<<300, 50>>, <<108, 220>>}

FrameViewports == {<<300, 50>>, <<600, 50>>}

\* The pointer positions: three on the row of panels (the second on the
\* divider of a split scene, all three on the button of the button scene)
\* and one lower down, off the panels and the button.
MousePositions == {<<150, 10>>, <<240, 10>>, <<400, 10>>, <<150, 60>>}

\* The viewport and the pointer positions of the hit scenes: on the first
\* child, on the divider after a panel, inside and just outside the hitbox
\* of that divider, and off the viewport.
HitViewports == {<<220, 220>>}

HitPositions == {<<2, 3>>, <<100, 101>>, <<103, 104>>, <<105, 106>>, <<230, 231>>}

\* The pointer positions of the drag scenes: on the divider, and to the left
\* and to the right of it.
DragPositions == {<<100, 10>>, <<2, 10>>, <<105, 10>>}

VARIABLES
    ui,           \* the UI_Context
    built,        \* per panel of the frame: the call that created it
    open_begins,  \* the UI_Begin_Panel calls not yet matched by UI_End_Panel
    unbalanced,   \* a UI_End_Panel call came with no unmatched UI_Begin_Panel
    calls,        \* number of API calls made
    style_calls,  \* number of style-setter calls made
    last_call,    \* the last API call made
    once_ids,     \* per name: the ID it got in the latest earlier frame that
                  \* built it exactly once (<<>>: no such frame yet)
    hash_in,      \* SpecHash: the string last hashed
    hash_out,     \* SpecHash: the hash returned for it
    pc,           \* the phase of the frame: idle, begun, built, laid, done,
                  \* emitted
    scene,        \* the scene the frame built
    clicked,      \* what UI_Button returned in the frame's build
    released_outside, \* the left button went up while a widget was active
                      \* and the pointer was outside the bounds of that widget
    render_list   \* the UI_Render_List of the frame

frame_vars == <<pc, scene, clicked, released_outside, render_list>>

builder_vars == <<built, open_begins, unbalanced, style_calls, once_ids>>

hash_vars == <<hash_in, hash_out>>

vars == <<ui, built, open_begins, unbalanced, calls, style_calls, last_call,
          once_ids, hash_in, hash_out, pc, scene, clicked, released_outside,
          render_list>>

Call(op, name) == [op |-> op, name |-> name]

Init ==
    /\ ui = InitContext
    /\ built = <<>>
    /\ open_begins = <<>>
    /\ unbalanced = FALSE
    /\ calls = 0
    /\ style_calls = 0
    /\ last_call = Call("none", NullStr)
    /\ once_ids = [n \in Names |-> <<>>]
    /\ hash_in = NullStr
    /\ hash_out = 0
    /\ pc = "idle"
    /\ scene = NoScene
    /\ clicked = 0
    /\ released_outside = FALSE
    /\ render_list = EmptyList

\* What a creating call adds to the record of the frame's panels: the name it
\* was given, the panel the enclosing unmatched Begin created (-1: none), and
\* the panel on top of the parent stack when it was made (-1: stack empty).
Created(c, c2, name) ==
    IF panel_count(c2) > panel_count(c)
    THEN Append(built,
                [name |-> name,
                 enclosing |-> IF open_begins = <<>> THEN -1
                               ELSE open_begins[Len(open_begins)],
                 top |-> IF c.parent_stack_count > 0 THEN StackTop(c) ELSE -1])
    ELSE built

\* The panels of the frame built with the name n.
BuiltAs(n) == {i \in 1..Len(built) : built[i].name = n}

BeginFrame ==
    /\ calls < MaxCalls
    /\ \E v \in Viewports : ui' = UI_BeginFrame(ui, v[1], v[2])
    /\ once_ids' = [n \in Names |->
                       IF Cardinality(BuiltAs(n)) = 1
                       THEN <<ui.panels[CHOOSE i \in BuiltAs(n) : TRUE].id>>
                       ELSE once_ids[n]]
    /\ built' = <<>>
    /\ open_begins' = <<>>
    /\ unbalanced' = FALSE
    /\ calls' = calls + 1
    /\ last_call' = Call("UI_BeginFrame", NullStr)
    /\ UNCHANGED <<style_calls, hash_in, hash_out>>
    /\ UNCHANGED frame_vars

Begin_Panel ==
    /\ calls < MaxCalls
    /\ \E name \in Names :
        /\ ui' = UI_Begin_Panel(ui, name)
        /\ built' = Created(ui, ui', name)
        /\ open_begins' = Append(open_begins,
                                 IF panel_count(ui') > panel_count(ui)
                                 THEN panel_count(ui) ELSE -1)
        /\ last_call' = Call("UI_Begin_Panel", name)
    /\ calls' = calls + 1
    /\ UNCHANGED <<unbalanced, style_calls, once_ids, hash_in, hash_out>>
    /\ UNCHANGED frame_vars

End_Panel ==
    /\ calls < MaxCalls
    /\ ui' = UI_End_Panel(ui)
    /\ IF open_begins = <<>>
       THEN /\ unbalanced' = TRUE
            /\ UNCHANGED open_begins
       ELSE /\ open_begins' = SubSeq(open_begins, 1, Len(open_begins) - 1)
            /\ UNCHANGED unbalanced
    /\ calls' = calls + 1
    /\ last_call' = Call("UI_End_Panel", NullStr)
    /\ UNCHANGED <<built, style_calls, once_ids, hash_in, hash_out>>
    /\ UNCHANGED frame_vars

Label ==
    /\ calls < MaxCalls
    /\ \E text \in LabelTexts :
        /\ ui' = UI_Label(ui, text, -1)
        /\ built' = Created(ui, ui', text)
        /\ last_call' = Call("UI_Label", text)
    /\ calls' = calls + 1
    /\ UNCHANGED <<open_begins, unbalanced, style_calls, once_ids, hash_in,
                   hash_out>>
    /\ UNCHANGED frame_vars

StyleCall(c2, op) ==
    /\ calls < MaxCalls
    /\ style_calls < MaxStyleCalls
    /\ ui' = c2
    /\ calls' = calls + 1
    /\ style_calls' = style_calls + 1
    /\ last_call' = Call(op, NullStr)
    /\ UNCHANGED <<built, open_begins, unbalanced, once_ids, hash_in, hash_out>>
    /\ UNCHANGED frame_vars

Panel_Set_Size ==
    \E wh \in {<<100, -1>>} :
        StyleCall(UI_Panel_Set_Size(ui, wh[1], wh[2]), "UI_Panel_Set_Size")

Panel_Set_Direction ==
    \E dir \in {1} :
        StyleCall(UI_Panel_Set_Direction(ui, dir), "UI_Panel_Set_Direction")

Panel_Set_Grow ==
    \E grow \in {1} :
        StyleCall(UI_Panel_Set_Grow(ui, grow), "UI_Panel_Set_Grow")

Next ==
    \/ BeginFrame
    \/ Begin_Panel
    \/ End_Panel
    \/ Label
    \/ Panel_Set_Size
    \/ Panel_Set_Direction
    \/ Panel_Set_Grow

Spec == Init /\ [][Next]_vars

\* SpecHash: UI_HashString applied to strings drawn from HashInputs.
HashCall ==
    /\ \E str \in HashInputs :
        /\ hash_in' = str
        /\ hash_out' = UI_HashString(str)
    /\ UNCHANGED <<ui, built, open_begins, unbalanced, calls, style_calls,
                   last_call, once_ids>>
    /\ UNCHANGED frame_vars

NextHash == HashCall

SpecHash == Init /\ [][NextHash]_vars

\* ---------------------------------------------------------------------------
\* The frame: UI_BeginFrame, the build of a scene, UI_LayoutPanelTree,
\* UI_Update_Interaction, UI_Input_EndFrame, in the order of the
\* application's frame function; input events arrive between frames.
\* ---------------------------------------------------------------------------

StartFrame(viewports, max_frames) ==
    /\ pc = "idle"
    /\ ui.frame_number < max_frames
    /\ \E v \in viewports : ui' = UI_BeginFrame(ui, v[1], v[2])
    /\ pc' = "begun"
    /\ render_list' = EmptyList
    /\ UNCHANGED <<scene, clicked, released_outside>>
    /\ UNCHANGED <<calls, last_call, builder_vars, hash_vars>>

\* The application keeps its interface from frame to frame: a later frame
\* builds the same container scene, or a split scene of the same shape that
\* may ask for another default size.
SameShape(sc, before) ==
    \/ before = NoScene
    \/ /\ sc.kind = before.kind
       /\ sc.kind \in {"tree", "hit"} => sc = before
       /\ sc.kind = "split" => /\ sc.same_name = before.same_name
                                /\ sc.styled = before.styled

Build(scenes) ==
    /\ pc = "begun"
    /\ \E sc \in scenes :
        /\ SameShape(sc, scene)
        /\ ui' = BuildScene(ui, sc).ctx
        /\ clicked' = BuildScene(ui, sc).clicked
        /\ scene' = sc
    /\ pc' = "built"
    /\ UNCHANGED <<released_outside, render_list>>
    /\ UNCHANGED <<calls, last_call, builder_vars, hash_vars>>

\* The layout from the root, run by the application if a panel exists.
Layout ==
    /\ pc = "built"
    /\ ui' = IF panel_count(ui) > 0 THEN UI_LayoutPanelTree(ui, 0) ELSE ui
    /\ pc' = "laid"
    /\ UNCHANGED <<scene, clicked, released_outside, render_list>>
    /\ UNCHANGED <<calls, last_call, builder_vars, hash_vars>>

\* The layout run a second time on the tree just laid out.
Relayout ==
    /\ pc = "laid"
    /\ ui' = IF panel_count(ui) > 0 THEN UI_LayoutPanelTree(ui, 0) ELSE ui
    /\ pc' = "relaid"
    /\ UNCHANGED <<scene, clicked, released_outside, render_list>>
    /\ UNCHANGED <<calls, last_call, builder_vars, hash_vars>>

Update_Interaction ==
    /\ pc \in {"laid", "relaid"}
    /\ ui' = UI_Update_Interaction(ui)
    /\ pc' = "done"
    /\ UNCHANGED <<scene, clicked, released_outside, render_list>>
    /\ UNCHANGED <<calls, last_call, builder_vars, hash_vars>>

\* The emit from the root, run by the application if a panel exists.
Emit ==
    /\ pc = "done"
    /\ render_list' = IF panel_count(ui) > 0
                      THEN UI_EmitPanels(ui, render_list, 0)
                      ELSE render_list
    /\ pc' = "emitted"
    /\ UNCHANGED <<ui, scene, clicked, released_outside>>
    /\ UNCHANGED <<calls, last_call, builder_vars, hash_vars>>

Input_EndFrame ==
    /\ pc = "emitted"
    /\ ui' = UI_Input_EndFrame(ui)
    /\ pc' = "idle"
    /\ UNCHANGED <<scene, clicked, released_outside, render_list>>
    /\ UNCHANGED <<calls, last_call, builder_vars, hash_vars>>

\* WM_MOUSEMOVE
MouseMove(positions) ==
    /\ pc = "idle"
    /\ \E pos \in positions :
        /\ pos # <<ui.input.mouse_x, ui.input.mouse_y>>
        /\ ui' = UI_Input_ProcessMouseMove(ui, pos[1], pos[2])
    /\ UNCHANGED <<pc, scene, clicked, released_outside, render_list>>
    /\ UNCHANGED <<calls, last_call, builder_vars, hash_vars>>

Input_ProcessMouseMove == MouseMove(MousePositions)

\* The pointer is outside the rect of the active widget.
OutsideActive(c) ==
    /\ c.interaction.active_widget # 0
    /\ UI_Find_Panel_By_Id(c, c.interaction.active_widget) >= 0
    /\ ~UI_Is_Hovered(c,
           PanelAt(c, UI_Find_Panel_By_Id(c, c.interaction.active_widget)).rect)

\* WM_LBUTTONDOWN / WM_LBUTTONUP
Input_ProcessMouseButton ==
    /\ pc = "idle"
    /\ \E down \in {0, 1} :
        /\ down # ui.input.mouse_down
        /\ ui' = UI_Input_ProcessMouseButton(ui, down)
        /\ released_outside' = (down = 0 /\ OutsideActive(ui))
    /\ UNCHANGED <<pc, scene, clicked, render_list>>
    /\ UNCHANGED <<calls, last_call, builder_vars, hash_vars>>

\* SpecLayout: one frame that builds a container scene, lays it out once or
\* twice and updates the interaction with the pointer at rest.
LayoutStart == StartFrame(LayoutViewports, MaxLayoutFrames)

LayoutBuild == Build(TreeScenes)

NextLayout ==
    \/ LayoutStart
    \/ LayoutBuild
    \/ Layout
    \/ Relayout
    \/ Update_Interaction
    \/ Emit
    \/ Input_EndFrame

SpecLayout == Init /\ [][NextLayout]_vars

\* SpecFrame: frames that build a split scene or the button scene, with
\* pointer moves and button events between them.
FrameStart == StartFrame(FrameViewports, MaxFrames)

FrameBuild == Build(SplitScenes \cup ButtonScenes)

NextFrame ==
    \/ Input_ProcessMouseMove
    \/ Input_ProcessMouseButton
    \/ FrameStart
    \/ FrameBuild
    \/ Layout
    \/ Update_Interaction
    \/ Emit
    \/ Input_EndFrame

SpecFrame == Init /\ [][NextFrame]_vars

\* SpecHit: frames that build one hit scene, with pointer moves and button
\* events between them.
HitStart == StartFrame(HitViewports, MaxFrames)

HitBuild == Build(HitScenes)

HitMove == MouseMove(HitPositions)

NextHit ==
    \/ HitMove
    \/ Input_ProcessMouseButton
    \/ HitStart
    \/ HitBuild
    \/ Layout
    \/ Update_Interaction
    \/ Emit
    \/ Input_EndFrame

SpecHit == Init /\ [][NextHit]_vars

\* SpecDrag: frames that build drag scenes, which may change from frame to
\* frame, long enough for one drag after another.
DragStart == StartFrame(HitViewports, MaxDragFrames)

DragBuild == Build(DragScenes)

DragMove == MouseMove(DragPositions)

NextDrag ==
    \/ DragMove
    \/ Input_ProcessMouseButton
    \/ DragStart
    \/ DragBuild
    \/ Layout
    \/ Update_Interaction
    \/ Emit
    \/ Input_EndFrame

SpecDrag == Init /\ [][NextDrag]_vars

\* SpecStore: UI_Set_Size_Override called with panel IDs and sizes drawn
\* from small sets, more IDs than the store holds.
StoreIds == {11, 12, 13, 14}

StoreWidths == {0, 70}

StoreHeights == {-1, 70}

StoreCall(id, w, h) ==
    [op |-> "UI_Set_Size_Override", name |-> NullStr,
     panel_id |-> id, pref_w |-> w, pref_h |-> h]

Set_Size_Override ==
    /\ \E id \in StoreIds, w \in StoreWidths, h \in StoreHeights :
        /\ ui' = UI_Set_Size_Override(ui, id, w, h)
        /\ last_call' = StoreCall(id, w, h)
    /\ UNCHANGED <<calls, builder_vars, hash_vars>>
    /\ UNCHANGED frame_vars

NextStore == Set_Size_Override

SpecStore == Init /\ [][NextStore]_vars

\* SpecInput: frames that build the button scene, with wheel turns and
\* characters delivered by the message pump between them.
WheelDeltas == {-1, 1}

InputChars == {65, 66}

\* WM_MOUSEWHEEL
Input_ProcessMouseWheel ==
    /\ pc = "idle"
    /\ \E delta \in WheelDeltas :
        /\ ui.input.mouse_wheel_delta + delta \in (-MaxWheel)..MaxWheel
        /\ ui' = UI_Input_ProcessMouseWheel(ui, delta)
    /\ UNCHANGED <<pc, scene, clicked, released_outside, render_list>>
    /\ UNCHANGED <<calls, last_call, builder_vars, hash_vars>>

\* WM_CHAR
Input_ProcessChar ==
    /\ pc = "idle"
    /\ \E ch \in InputChars : ui' = UI_Input_ProcessChar(ui, ch)
    /\ UNCHANGED <<pc, scene, clicked, released_outside, render_list>>
    /\ UNCHANGED <<calls, last_call, builder_vars, hash_vars>>

InputStart == StartFrame(HitViewports, MaxFrames)

InputBuild == Build(ButtonScenes)

NextInput ==
    \/ Input_ProcessMouseWheel
    \/ Input_ProcessChar
    \/ InputStart
    \/ InputBuild
    \/ Layout
    \/ Update_Interaction
    \/ Emit
    \/ Input_EndFrame

SpecInput == Init /\ [][NextInput]_vars

\* SpecShare: UI_LayoutRow's two passes applied once to a row whose children
\* have grow factors drawn from ShareGrows, whole numbers and tenths.
Tenth == [m |-> 13421773, e |-> 27]

Fifth == [m |-> 13421773, e |-> 26]

One == [m |-> 8388608, e |-> 23]

Five == [m |-> 10485760, e |-> 21]

ShareGrows == {F32Zero, Tenth, Fifth, One, Five}

ShareKids == [pref : {-1, 2}, grow : ShareGrows]

ShareRows ==
    {<<a>> : a \in ShareKids}
        \cup {<<a, b>> : a, b \in ShareKids}
        \cup {<<a, b, b2>> : a, b, b2 \in [pref : {-1}, grow : ShareGrows]}

RowCall(cw, gap, kids) ==
    [op |-> "UI_LayoutRow", name |-> NullStr, cw |-> cw, gap |-> gap,
     kids |-> kids, widths |-> RowWidths(cw, gap, kids)]

LayoutRow ==
    /\ last_call.op = "none"
    /\ \E cw \in 0..ShareMaxContent, gap \in {0, 1}, kids \in ShareRows :
           last_call' = RowCall(cw, gap, kids)
    /\ UNCHANGED <<ui, calls, builder_vars, hash_vars>>
    /\ UNCHANGED frame_vars

NextShare == LayoutRow

SpecShare == Init /\ [][NextShare]_vars

\* ---------------------------------------------------------------------------
\* Identifier system
\* ---------------------------------------------------------------------------

PanelIndices == 1..Len(ui.panels)

\* The strings the builder hashes: the names and their "##<n>" forms.
InvolvedStrings ==
    Names \cup {FormatUnique(n, k) : n \in Names, k \in 0..MaxCalls}

\* The hash is injective on the strings involved.
HashInjective ==
    \A s1, s2 \in InvolvedStrings :
        UI_HashString(s1) = UI_HashString(s2) => s1 = s2

\* The name and its "##<n>" forms fit the text buffer of UI_Generate_Id.
FitsBuffer(n) == Len(n) + 2 + Len(Decimal(MaxCalls)) <= MAX_UI_TEXT_LENGTH - 1

\* C1: within one frame, any two builder calls made with the same name produce
\* panels with different IDs, for every name.
C1_SameNameDistinctIds ==
    \A i, j \in PanelIndices :
        (i # j /\ built[i].name = built[j].name)
            => ui.panels[i].id # ui.panels[j].id

\* C2: after any sequence of builder calls in one frame, names containing
\* "##<n>" included and the hash being injective on the strings involved, the
\* IDs of all panels in the arena are pairwise distinct. Stated for the frames
\* all of whose names fit the text buffer with their suffix, so that the
\* truncation of C1 plays no part.
C2_AllIdsDistinct ==
    (HashInjective /\ \A i \in PanelIndices : FitsBuffer(built[i].name))
        => \A i, j \in PanelIndices :
               i # j => ui.panels[i].id # ui.panels[j].id

ByteValue(b) == b

\* The value a byte adds to the fold: as a char when asChar, else as a byte.
Addend(b, asChar) == IF asChar THEN CharToInt(b) ELSE ByteValue(b)

\* The djb2 fold of the claim, h = h*33 + value from 5381 modulo 2^32, kept as
\* the two 16-bit halves of the 32-bit value.
RECURSIVE Djb2Fold(_, _, _)
Djb2Fold(str, n, asChar) ==
    IF n = 0 THEN [hi |-> 0, lo |-> 5381]
    ELSE LET h  == Djb2Fold(str, n - 1, asChar)
             v  == Addend(str[n], asChar)
             lo == h.lo * 33 + (v % 65536)
             hi == h.hi * 33 + ((v \div 65536) % 65536) + (lo \div 65536)
         IN  [hi |-> hi % 65536, lo |-> lo % 65536]

\* x, an int32, is the 32-bit value h modulo 2^32.
SameBits(x, h) == x % 65536 = h.lo /\ (x \div 65536) % 65536 = h.hi

\* C4 as claimed: the hash is the djb2 fold over the bytes of the name modulo
\* 2^32, and the absent name and the empty name both hash to 0.
C4_Djb2AndEmptyIsZero ==
    IF hash_in = NullStr \/ hash_in = <<>>
    THEN hash_out = 0
    ELSE SameBits(hash_out, Djb2Fold(hash_in, Len(hash_in), FALSE))

\* C4 as amended: the absent name hashes to 0; every other name, the empty one
\* included, hashes to the djb2 fold over its chars modulo 2^32, each char
\* entering with its value as a (signed) char; the empty name hashes to the
\* seed 5381.
C4_Djb2OverChars ==
    /\ hash_in = NullStr => hash_out = 0
    /\ hash_in # NullStr =>
           SameBits(hash_out, Djb2Fold(hash_in, Len(hash_in), TRUE))
    /\ hash_in = <<>> => hash_out = 5381

\* A name with a byte above 0x7F, long enough for the fold to exceed 2^32,
\* whose hash is not the fold over its unsigned bytes.
C4_Witness ==
    /\ hash_in # NullStr
    /\ Len(hash_in) >= MAX_UI_TEXT_LENGTH
    /\ hash_in[1] >= 128
    /\ hash_out = UI_HashString(hash_in)
    /\ ~SameBits(hash_out, Djb2Fold(hash_in, Len(hash_in), FALSE))

\* ---------------------------------------------------------------------------
\* Panel tree construction
\* ---------------------------------------------------------------------------

\* The step is one call of the builder operation op.
IsCall(op) == calls' = calls + 1 /\ last_call'.op = op

\* C5: when the panel arena is full, UI_Begin_Panel leaves the whole builder
\* state unchanged, the table of used IDs included.
C5_FullArenaBeginIsNoOp ==
    [][(panel_count(ui) >= UI_MAX_PANELS /\ IsCall("UI_Begin_Panel"))
          => ui' = ui]_vars

\* Valid panel indices (0-based, as in the code).
ValidIndex(idx) == idx >= 0 /\ idx < panel_count(ui)

\* C6 as claimed: every panel other than the one at index 0 has a valid
\* parent, never -1.
C6_EveryNonRootHasParent ==
    \A idx \in 1..(panel_count(ui) - 1) : ValidIndex(PanelAt(ui, idx).parent)

\* C6 as amended: a panel created while the parent stack is non-empty has the
\* stack top of that moment as parent, a valid index below its own; a panel
\* created while the stack is empty is a root with parent -1, at any index.
C6_ParentIsStackTopOrRoot ==
    \A idx \in 0..(panel_count(ui) - 1) :
        LET p == PanelAt(ui, idx).parent
        IN  /\ p = built[idx + 1].top
            /\ p # -1 => (ValidIndex(p) /\ p < idx)

\* A frame with a parented panel and a second root at an index above 0.
C6_Witness ==
    /\ \E idx \in 1..(panel_count(ui) - 1) : PanelAt(ui, idx).parent >= 0
    /\ \E idx \in 1..(panel_count(ui) - 1) :
           PanelAt(ui, idx).parent = -1 /\ built[idx + 1].top = -1

\* The panels reached from idx along next_sibling, in order; fuel bounds the
\* walk by the arena size.
RECURSIVE SiblingChain(_, _)
SiblingChain(idx, fuel) ==
    IF idx = -1 \/ fuel = 0 \/ ~ValidIndex(idx) THEN <<>>
    ELSE <<idx>> \o SiblingChain(PanelAt(ui, idx).next_sibling, fuel - 1)

ChildChain(P) == SiblingChain(PanelAt(ui, P).first_child, panel_count(ui) + 1)

ChildrenOf(P) ==
    {idx \in 0..(panel_count(ui) - 1) : PanelAt(ui, idx).parent = P}

\* C7: for every panel P the chain first_child -> next_sibling visits exactly
\* the panels whose parent is P, in increasing index order, and ends at
\* last_child; every parent index is below its children's indices.
C7_ChildChainIsChildrenInOrder ==
    \A P \in 0..(panel_count(ui) - 1) :
        LET chain == ChildChain(P)
        IN  /\ {chain[k] : k \in 1..Len(chain)} = ChildrenOf(P)
            /\ \A k \in 1..(Len(chain) - 1) : chain[k] < chain[k + 1]
            /\ IF chain = <<>>
               THEN PanelAt(ui, P).first_child = -1
                        /\ PanelAt(ui, P).last_child = -1
               ELSE PanelAt(ui, P).last_child = chain[Len(chain)]
                        /\ PanelAt(ui, chain[Len(chain)]).next_sibling = -1
            /\ \A ch \in ChildrenOf(P) : P < ch

\* A panel with at least two children and a grandchild in between.
C7_Witness ==
    \E P \in 0..(panel_count(ui) - 1) :
        /\ Len(ChildChain(P)) >= 2
        /\ \E ch \in ChildrenOf(P) : ChildrenOf(ch) # {}

\* C8: for a properly nested sequence of Begin/End calls, every panel's parent
\* is the panel of the innermost enclosing Begin not yet ended (-1 if none),
\* and the parent stack is empty once every Begin has been ended.
C8_ParentIsInnermostOpenBegin ==
    ~unbalanced =>
        /\ \A idx \in 0..(panel_count(ui) - 1) :
               PanelAt(ui, idx).parent = built[idx + 1].enclosing
        /\ open_begins = <<>> => ui.parent_stack_count = 0

\* C9: with the parent stack at its maximum depth, UI_Begin_Panel is a no-op:
\* no panel is allocated, no child link is made, the stack is unchanged.
C9_FullStackBeginIsNoOp ==
    [][(ui.parent_stack_count >= UI_MAX_PARENT_STACK_DEPTH
            /\ IsCall("UI_Begin_Panel"))
          => /\ ui'.panels = ui.panels
             /\ ui'.parent_stack = ui.parent_stack
             /\ ui'.parent_stack_count = ui.parent_stack_count]_vars

\* The depth is within 0..max and every live stack entry is a valid index.
StackWellFormed ==
    /\ ui.parent_stack_count \in 0..UI_MAX_PARENT_STACK_DEPTH
    /\ \A k \in 0..(ui.parent_stack_count - 1) :
           ValidIndex(ui.parent_stack[k])

\* C10: UI_End_Panel on an empty parent stack changes nothing; the stack depth
\* stays in 0..max and every stack entry is a valid panel index.
C10_StackBoundedEndOnEmptyIsNoOp ==
    /\ []StackWellFormed
    /\ [][(ui.parent_stack_count = 0 /\ IsCall("UI_End_Panel"))
             => ui' = ui]_vars

\* UI_End_Panel has just been called on an empty stack, panels exist, and an
\* earlier part of the frame filled the stack.
C10_Witness ==
    /\ unbalanced
    /\ last_call.op = "UI_End_Panel"
    /\ ui.parent_stack_count = 0
    /\ panel_count(ui) >= UI_MAX_PARENT_STACK_DEPTH

\* ---------------------------------------------------------------------------
\* Layout
\* ---------------------------------------------------------------------------

\* The layout of the frame has run.
LaidOut == pc \in {"laid", "relaid", "done"}

Rect(x, y, w, h) == [x |-> x, y |-> y, w |-> w, h |-> h]

\* C11: after the build and after the layout the root panel's rect is exactly
\* {0, 0, viewport width, viewport height} of the frame; no builder call,
\* layout step or interaction step changes it.
C11_RootRectIsViewport ==
    (pc \in {"built", "laid", "done"} /\ panel_count(ui) > 0)
        => /\ PanelAt(ui, 0).rect = Rect(0, 0, ui.screen_w, ui.screen_h)
           /\ <<ui.screen_w, ui.screen_h>> \in FrameViewports

\* A drag has resized the panels of a frame whose viewport differs from the
\* one of the frame before, and the root has the new viewport as rect.
C11_Witness ==
    /\ pc = "done"
    /\ ui.frame_number >= 2
    /\ ui.size_overrides # <<>>
    /\ ui.interaction.dragging_divider # 0
    /\ PanelAt(ui, 0).rect = Rect(0, 0, 600, 50)
    /\ PanelAt(ui, 1).style.pref_w # PanelAt(ui, 1).rect.w

\* The panels below panel idx in the tree, idx included.
RECURSIVE Subtree(_)
Subtree(idx) ==
    {idx} \cup UNION {Subtree(ch) : ch \in ChildrenOf(idx)}

Reachable == IF panel_count(ui) > 0 THEN Subtree(0) ELSE {}

\* C12: for a non-negative viewport, after the layout every panel reachable
\* from the root has rect.w >= 0 and rect.h >= 0, whatever the preferred
\* sizes, paddings, gaps and grow factors.
C12_RectsNonNegative ==
    LaidOut => \A idx \in Reachable :
                   PanelAt(ui, idx).rect.w >= 0 /\ PanelAt(ui, idx).rect.h >= 0

\* The sum of the fixed contributions of the children of the root.
FixedTotal(dir) ==
    LET kids == ChildChain(0)
        f[k \in 0..Len(kids)] ==
            IF k = 0 THEN 0
            ELSE f[k - 1] + (IF PrefOn(PanelAt(ui, kids[k]), dir) >= 0
                             THEN PrefOn(PanelAt(ui, kids[k]), dir) ELSE 0)
    IN  f[Len(kids)]

\* A laid-out row whose children ask for more than the content width, with
\* padding and a negative gap, and a sentinel preferred size among them.
C12_Witness ==
    /\ LaidOut
    /\ PanelAt(ui, 0).style.direction = 0
    /\ PanelAt(ui, 0).style.gap < 0
    /\ PanelAt(ui, 0).style.pad_l > 0
    /\ Len(ChildChain(0)) = 3
    /\ FixedTotal(0) > PanelAt(ui, 0).rect.w
    /\ \E idx \in Reachable : PanelAt(ui, idx).style.pref_w < 0
    /\ \E idx \in Reachable : PanelAt(ui, idx).style.flex_grow > 0

\* The size and the start of a rect on the axis dir (0: x, 1: y).
SizeOn(r, dir) == IF dir = 0 THEN r.w ELSE r.h

StartOn(r, dir) == IF dir = 0 THEN r.x ELSE r.y

Cross(dir) == 1 - dir

\* The padding of panel p before and after its content on the axis dir.
PadBefore(p, dir) == IF dir = 0 THEN p.style.pad_l ELSE p.style.pad_t

PadAfter(p, dir) == IF dir = 0 THEN p.style.pad_r ELSE p.style.pad_b

Max0(v) == IF v > 0 THEN v ELSE 0

\* The content size of panel p on the axis dir.
ContentSize(p, dir) ==
    Max0(SizeOn(p.rect, dir) - PadBefore(p, dir) - PadAfter(p, dir))

\* The fixed contribution of a child on the axis dir.
FixedPart(child, dir) == Max0(PrefOn(child, dir))

\* Sum of f over the elements of the sequence kids.
SumOver(kids, f(_)) ==
    LET acc[k \in 0..Len(kids)] ==
            IF k = 0 THEN 0 ELSE acc[k - 1] + f(kids[k])
    IN  acc[Len(kids)]

\* The space the children of the panel at idx share by their grow factors.
RemainingOf(idx) ==
    LET p    == PanelAt(ui, idx)
        dir  == p.style.direction
        kids == ChildChain(idx)
        fix(k) == FixedPart(PanelAt(ui, k), dir)
    IN  Max0(ContentSize(p, dir) - SumOver(kids, fix)
                 - p.style.gap * (Len(kids) - 1))

\* The sum of the positive grow factors of the children of the panel at idx.
GrowSumOf(idx) ==
    LET g(k) == Max0(PanelAt(ui, k).style.flex_grow)
    IN  SumOver(ChildChain(idx), g)

\* The exact floor(flex_grow / grow_sum * remaining) of child ch of idx.
ExactShare(idx, ch) ==
    IF PanelAt(ui, ch).style.flex_grow > 0
    THEN (PanelAt(ui, ch).style.flex_grow * RemainingOf(idx)) \div GrowSumOf(idx)
    ELSE 0

\* The part of the main-axis size of child ch of idx beyond its fixed part.
ShareOf(idx, ch) ==
    SizeOn(PanelAt(ui, ch).rect, PanelAt(ui, idx).style.direction)
        - FixedPart(PanelAt(ui, ch), PanelAt(ui, idx).style.direction)

\* The cross-axis size of every child is the content cross size of its
\* container.
CrossSizeIsContent(idx) ==
    \A ch \in ChildrenOf(idx) :
        SizeOn(PanelAt(ui, ch).rect, Cross(PanelAt(ui, idx).style.direction))
            = ContentSize(PanelAt(ui, idx), Cross(PanelAt(ui, idx).style.direction))

PlacedInOrder(idx) ==
    LET p    == PanelAt(ui, idx)
        dir  == p.style.direction
        kids == ChildChain(idx)
    IN  \A k \in 1..Len(kids) :
            /\ StartOn(PanelAt(ui, kids[k]).rect, dir)
                   = IF k = 1
                     THEN StartOn(p.rect, dir) + PadBefore(p, dir)
                     ELSE StartOn(PanelAt(ui, kids[k - 1]).rect, dir)
                              + SizeOn(PanelAt(ui, kids[k - 1]).rect, dir)
                              + p.style.gap
            /\ StartOn(PanelAt(ui, kids[k]).rect, Cross(dir))
                   = StartOn(p.rect, Cross(dir)) + PadBefore(p, Cross(dir))

\* C14: after the layout the first child of a container starts at the
\* content origin on the main axis and each following child at the previous
\* child's start plus its size plus the gap.
C14_ChildrenPlacedInOrder ==
    LaidOut => \A idx \in Reachable : PlacedInOrder(idx)

\* The column of height 220 with gap 20 and three children of grow factor 1:
\* y = 0, 80, 160 and height 60 each.
C14_Witness ==
    /\ LaidOut
    /\ PanelAt(ui, 0).rect = Rect(0, 0, 108, 220)
    /\ PanelAt(ui, 0).style.direction = 1
    /\ PanelAt(ui, 0).style.gap = 20
    /\ PanelAt(ui, 0).style.pad_t = 0
    /\ ChildChain(0) = <<1, 2, 3>>
    /\ \A k \in 1..3 : /\ PanelAt(ui, k).style.flex_grow = 1
                       /\ PanelAt(ui, k).style.pref_h = -1
                       /\ PanelAt(ui, k).rect.h = 60
                       /\ PanelAt(ui, k).rect.y = 80 * (k - 1)

\* C15: running the layout a second time on the unchanged tree leaves every
\* rect as the first run computed it.
C15_LayoutIsIdempotent ==
    [][(pc = "laid" /\ pc' = "relaid") => ui' = ui]_vars

\* A tree of a container with padding, a gap and growing children has been
\* laid out twice.
C15_Witness ==
    /\ pc = "relaid"
    /\ Len(ChildChain(0)) >= 2
    /\ PanelAt(ui, 0).style.gap # 0
    /\ PanelAt(ui, 0).style.pad_l > 0
    /\ \E ch \in ChildrenOf(0) : /\ PanelAt(ui, ch).style.flex_grow > 0
                                 /\ PanelAt(ui, ch).rect.w > 0
                                 /\ PanelAt(ui, ch).rect.h > 0

\* ---------------------------------------------------------------------------
\* Interaction
\* ---------------------------------------------------------------------------

\* C16: if a button is active and the pointer leaves its rect before the
\* mouse button is released, UI_Button does not return 1 for that release,
\* whenever the move and the release arrive relative to the frames.
C16_NoClickReleasedOutside ==
    (pc = "built" /\ scene.kind = "button" /\ released_outside
        /\ ui.interaction.active_widget_prev = PanelAt(ui, 0).id
        /\ ui.input.mouse_released = 1)
        => clicked = 0

\* The panel a drag target ID resolves to in the frame's tree, or -1.
Resolve(id) == IF id # 0 THEN UI_Find_Panel_By_Id(ui, id) ELSE -1

LeftIdx == Resolve(ui.interaction.resize_target_left_id)

RightIdx == Resolve(ui.interaction.resize_target_right_id)

StartLeft == ui.interaction.drag_start_size_left

StartRight == ui.interaction.drag_start_size_right

\* The interaction update of this step resizes the two panels next to the
\* dragged divider, both resolved, along the width.
DragStep ==
    /\ pc = "laid" /\ pc' = "done"
    /\ ui.interaction.dragging_divider # 0
    /\ Resolve(ui.interaction.dragging_divider) >= 0
    /\ LeftIdx >= 0 /\ RightIdx >= 0
    /\ PanelAt(ui, PanelAt(ui, LeftIdx).parent).style.direction = 0

\* The left size proposed by the pointer position.
ProposedLeft == StartLeft + (ui.input.mouse_x - ui.interaction.drag_start_pos)

MinL == PanelAt(ui, LeftIdx).style.min_w

MaxL == PanelAt(ui, LeftIdx).style.max_w

MinR == PanelAt(ui, RightIdx).style.min_w

MaxR == PanelAt(ui, RightIdx).style.max_w

\* The right size that goes with the left panel at its minimum.
RightAtLeftMin == StartRight - (MinL - StartLeft)

\* The sizes the step writes.
WrittenLeft == PanelAt(ui', LeftIdx).style.pref_w

WrittenRight == PanelAt(ui', RightIdx).style.pref_w

\* C17 (as stated): in every drag frame where start_left + delta is below
\* the left panel's minimum, the left size written is that minimum and the
\* right size written is start_right - (min - start_left).
C17_LeftMinWritten ==
    [][(DragStep /\ ProposedLeft < MinL)
           => (WrittenLeft = MinL /\ WrittenRight = RightAtLeftMin)]_vars

\* C17 (amended): in every drag frame where start_left + delta is below the
\* left panel's minimum, the sizes written are that minimum and
\* start_right - (min - start_left) if the latter is within the right
\* panel's [min, max]; otherwise the right size written is the bound of the
\* right panel it passed and the left size is start_left + start_right
\* minus that bound.
C17_LeftMinWrittenUnlessRightClamps ==
    [][(DragStep /\ ProposedLeft < MinL)
           => IF RightAtLeftMin < MinR
              THEN WrittenRight = MinR
                       /\ WrittenLeft = StartLeft + StartRight - MinR
              ELSE IF RightAtLeftMin > MaxR
              THEN WrittenRight = MaxR
                       /\ WrittenLeft = StartLeft + StartRight - MaxR
              ELSE WrittenLeft = MinL /\ WrittenRight = RightAtLeftMin]_vars

\* The frame's interaction update has run a resize step of a drag begun in
\* an earlier frame.
Resized ==
    /\ pc = "done"
    /\ scene.kind = "split"
    /\ ui.interaction.dragging_divider # 0
    /\ ui.input.mouse_pressed = 0
    /\ LeftIdx >= 0 /\ RightIdx >= 0

\* The pointer asked for a left panel 150 wide, below its minimum of 200:
\* 200 was written, and the right panel took the 40 the left kept.
C17_Witness ==
    /\ Resized
    /\ ui.interaction.drag_start_pos = 240 /\ ui.input.mouse_x = 150
    /\ StartLeft = 240 /\ StartRight = 359
    /\ MinL = 200
    /\ PanelAt(ui, LeftIdx).style.pref_w = 200
    /\ PanelAt(ui, RightIdx).style.pref_w = 399

C19_ZeroSum ==
    [][DragStep => WrittenLeft + WrittenRight = StartLeft + StartRight]_vars

\* A resize step clamped by the right panel's minimum: the pointer at 400
\* asked for a right panel 199 wide.
C19_Witness ==
    /\ Resized
    /\ ui.interaction.drag_start_pos = 240 /\ ui.input.mouse_x = 400
    /\ StartLeft = 240 /\ StartRight = 359
    /\ PanelAt(ui, RightIdx).style.pref_w = MinR
    /\ PanelAt(ui, LeftIdx).style.pref_w = 399
    /\ PanelAt(ui, LeftIdx).style.pref_w + PanelAt(ui, RightIdx).style.pref_w
           = StartLeft + StartRight

\* The panels of a split scene built by UI_Panel_Resizable.
ResizablePanels ==
    IF scene.kind = "split" /\ ~scene.styled THEN {1, 3} ELSE {}

\* C20: once a drag has stored a width override for a panel's ID, every
\* later frame that builds the panel with UI_Panel_Resizable in a row lays
\* it out with exactly the overridden width, whatever the default sizes
\* asked for and also for an ID made by name deduplication.
C20_OverrideIsLaidOutWidth ==
    pc = "laid"
        => \A idx \in ResizablePanels :
               \A k \in 1..Len(ui.size_overrides) :
                   (ui.size_overrides[k].panel_id = PanelAt(ui, idx).id
                        /\ ui.size_overrides[k].pref_w >= 0)
                       => PanelAt(ui, idx).rect.w = ui.size_overrides[k].pref_w

\* ---------------------------------------------------------------------------
\* Emitter
\* ---------------------------------------------------------------------------

\* The panels of the tree below idx in pre-order.
RECURSIVE PreOrder(_), PreOrderEach(_, _)
PreOrder(idx) == <<idx>> \o PreOrderEach(ChildChain(idx), 1)

PreOrderEach(kids, k) ==
    IF k > Len(kids) THEN <<>>
    ELSE PreOrder(kids[k]) \o PreOrderEach(kids, k + 1)

\* The first n elements of a sequence.
Prefix(seq, n) == SubSeq(seq, 1, IF Len(seq) < n THEN Len(seq) ELSE n)

\* The colour has alpha 0.
FullyTransparent(color) == 0 <= color /\ color < 16777216

NotTransparent(idx) == ~FullyTransparent(PanelAt(ui, idx).style.color)

\* The rule of the emitter: every panel but a label of colour 0x00000000.
NotBlankLabel(idx) ==
    ~(PanelAt(ui, idx).is_label # 0 /\ PanelAt(ui, idx).style.color = 0)

\* The rectangle primitive of the panel at idx.
RectangleOf(idx) ==
    LET p == PanelAt(ui, idx)
    IN  [left |-> p.rect.x, top |-> p.rect.y, right |-> p.rect.x + p.rect.w,
         bottom |-> p.rect.y + p.rect.h, color |-> p.style.color]

Emitted == pc = "emitted" /\ panel_count(ui) > 0

\* C21 (as stated): the emitter appends a rectangle for a panel if and only
\* if the panel's colour is not fully transparent, up to the capacity of the
\* list, for labels and other panels alike.
C21_RectangleIffNotTransparent ==
    Emitted =>
        LET drawn == SelectSeq(PreOrder(0), NotTransparent)
        IN  /\ Len(render_list.rectangles) = Len(Prefix(drawn, MAX_UI_RECTANGLES))
            /\ \A k \in 1..Len(render_list.rectangles) :
                   ~FullyTransparent(render_list.rectangles[k].color)

\* C21 (amended): the emitter appends a rectangle for every panel that is
\* not a label, whatever its colour, and for a label if and only if its
\* colour is not 0x00000000, up to the capacity of the list.
C21_RectangleUnlessBlankLabel ==
    Emitted =>
        LET drawn == SelectSeq(PreOrder(0), NotBlankLabel)
        IN  /\ Len(render_list.rectangles) = Len(Prefix(drawn, MAX_UI_RECTANGLES))
            /\ \A k \in 1..Len(render_list.rectangles) :
                   render_list.rectangles[k].color = PanelAt(ui, drawn[k]).style.color

\* A panel of colour 0 that is no label got a rectangle, and the two labels
\* next to it got none.
C21_Witness ==
    /\ Emitted
    /\ scene.kind = "hit" /\ scene.kids = <<"X", "T", "T">>
    /\ PanelAt(ui, 1).is_label = 0 /\ PanelAt(ui, 1).style.color = 0
    /\ PanelAt(ui, 2).is_label = 1 /\ PanelAt(ui, 3).is_label = 1
    /\ Len(render_list.rectangles) = 2
    /\ render_list.rectangles[2] = RectangleOf(1)

HasText(idx) ==
    PanelAt(ui, idx).is_label # 0 /\ PanelAt(ui, idx).label_text # <<>>

\* C22: after the emit the rectangle list is the sequence of the rectangles
\* of the emitted panels in tree pre-order cut to the capacity; the counts
\* of rectangles and texts never exceed the capacities, and what is beyond is
\* dropped with every earlier entry as it was appended.
C22_PreOrderTruncated ==
    /\ Len(render_list.rectangles) <= MAX_UI_RECTANGLES
    /\ Len(render_list.texts) <= MAX_UI_TEXTS
    /\ Emitted =>
        LET drawn  == SelectSeq(PreOrder(0), NotBlankLabel)
            titled == SelectSeq(PreOrder(0), HasText)
        IN  /\ render_list.rectangles
                   = Prefix([k \in 1..Len(drawn) |-> RectangleOf(drawn[k])],
                            MAX_UI_RECTANGLES)
            /\ Len(render_list.texts) = Len(Prefix(titled, MAX_UI_TEXTS))
            /\ \A k \in 1..Len(render_list.texts) :
                   /\ render_list.texts[k].text = PanelAt(ui, titled[k]).label_text
                   /\ render_list.texts[k].x = PanelAt(ui, titled[k]).rect.x
                   /\ render_list.texts[k].y = PanelAt(ui, titled[k]).rect.y

\* Four panels were to be drawn and the list holds the first three, in
\* pre-order: the root, the first panel and the divider.
C22_Witness ==
    /\ Emitted
    /\ scene.kind = "hit" /\ scene.kids = <<"P", "D", "P">>
    /\ Len(SelectSeq(PreOrder(0), NotBlankLabel)) > MAX_UI_RECTANGLES
    /\ Len(render_list.rectangles) = MAX_UI_RECTANGLES
    /\ render_list.rectangles[1] = RectangleOf(0)
    /\ render_list.rectangles[MAX_UI_RECTANGLES] = RectangleOf(MAX_UI_RECTANGLES - 1)
    /\ RectangleOf(1) # RectangleOf(2)

\* ---------------------------------------------------------------------------
\* Hit test, press and release
\* ---------------------------------------------------------------------------

\* The point (x, y) is in the rect r, taken half-open.
InRect(x, y, r) ==
    /\ r.x <= x /\ x < r.x + r.w
    /\ r.y <= y /\ y < r.y + r.h

\* The rect r grown by pad on every side.
Grown(r, pad) ==
    [x |-> r.x - pad, y |-> r.y - pad, w |-> r.w + 2 * pad, h |-> r.h + 2 * pad]

\* The pointer is in the hitbox of the resizable panel at idx.
InHitbox(idx) ==
    LET p == PanelAt(ui, idx)
    IN  /\ p.is_label = 0 /\ p.style.resizable # 0
        /\ InRect(ui.input.mouse_x, ui.input.mouse_y,
                  Grown(p.rect, p.style.resize_hitbox_padding))

\* The pointer is in the rect of the ordinary panel at idx.
InOrdinary(idx) ==
    LET p == PanelAt(ui, idx)
    IN  /\ p.is_label = 0 /\ p.style.resizable = 0
        /\ InRect(ui.input.mouse_x, ui.input.mouse_y, p.rect)

\* The ID of the last panel of a sequence of panels, 0 for none.
LastId(seq) == IF seq = <<>> THEN 0 ELSE PanelAt(ui, seq[Len(seq)]).id

HitTested == pc = "done" /\ panel_count(ui) > 0

\* C23: after the hit test, if the pointer is inside the expanded rect of a
\* resizable panel that is no label, hot_widget is the ID of the last such
\* panel in tree pre-order, whichever ordinary panels contain the pointer.
C23_HitboxWins ==
    (HitTested /\ SelectSeq(PreOrder(0), InHitbox) # <<>>)
        => ui.interaction.hot_widget = LastId(SelectSeq(PreOrder(0), InHitbox))

\* The pointer is on the panel after the divider, three pixels into it, and
\* the divider is hot.
C23_Witness ==
    /\ HitTested
    /\ scene.kind = "hit" /\ scene.kids = <<"P", "D", "P">> /\ scene.dir = 0
    /\ ui.input.mouse_x = 103
    /\ InOrdinary(3) /\ InOrdinary(0) /\ InHitbox(2)
    /\ ~InRect(ui.input.mouse_x, ui.input.mouse_y, PanelAt(ui, 2).rect)
    /\ ui.interaction.hot_widget = PanelAt(ui, 2).id

\* C24: after the hit test, when no hitbox of a resizable panel contains the
\* pointer, hot_widget is the ID of the last panel in tree pre-order that is
\* neither a label nor resizable and whose rect, half-open, contains the
\* pointer, and 0 if there is none; the hot widget of an earlier frame does
\* not survive.
C24_LastOrdinaryPanelIsHot ==
    (HitTested /\ SelectSeq(PreOrder(0), InHitbox) = <<>>)
        => ui.interaction.hot_widget = LastId(SelectSeq(PreOrder(0), InOrdinary))

\* The pointer left the viewport: a frame that had a hot widget before it
\* has none after its hit test.
C24_Witness ==
    /\ HitTested
    /\ ui.frame_number >= 2
    /\ ui.interaction.hot_widget_prev # 0
    /\ ui.input.mouse_x = 230
    /\ SelectSeq(PreOrder(0), InOrdinary) = <<>>
    /\ ui.interaction.hot_widget = 0

\* The drag fields of the interaction state.
DragFields(c) ==
    <<c.interaction.dragging_divider, c.interaction.resize_target_left_id,
      c.interaction.resize_target_right_id, c.interaction.drag_start_size_left,
      c.interaction.drag_start_size_right, c.interaction.drag_start_pos>>

\* The step is the interaction update of a frame.
InteractionStep == pc = "laid" /\ pc' = "done"

\* The first panel of the tree with the ID, -1 for none.
Named(id) ==
    LET all == 0..(panel_count(ui) - 1)
    IN  IF \E i \in all : PanelAt(ui, i).id = id
        THEN CHOOSE i \in all :
                 /\ PanelAt(ui, i).id = id
                 /\ \A j \in all : PanelAt(ui, j).id = id => i <= j
        ELSE -1

HotNamesResizable ==
    /\ Named(ui'.interaction.hot_widget) >= 0
    /\ PanelAt(ui, Named(ui'.interaction.hot_widget)).style.resizable # 0

\* C25: on a press edge, a hot widget that is a resizable panel becomes the
\* dragged divider and active_widget stays; a hot widget that is not
\* resizable becomes the active widget and dragging_divider stays; with no
\* hot widget neither active_widget nor a drag field changes.
C25_PressEdge ==
    [][(InteractionStep /\ ui.input.mouse_pressed = 1)
           => IF ui'.interaction.hot_widget = 0
              THEN /\ ui'.interaction.active_widget = ui.interaction.active_widget
                   /\ DragFields(ui') = DragFields(ui)
              ELSE IF HotNamesResizable
              THEN /\ ui'.interaction.dragging_divider = ui'.interaction.hot_widget
                   /\ ui'.interaction.active_widget = ui.interaction.active_widget
              ELSE /\ ui'.interaction.active_widget = ui'.interaction.hot_widget
                   /\ ui'.interaction.dragging_divider
                          = ui.interaction.dragging_divider]_vars

\* A press on a divider while an ordinary widget pressed earlier is still
\* the active one: the divider is dragged and the active widget stays.
C25_Witness ==
    /\ HitTested
    /\ ui.input.mouse_pressed = 1
    /\ ui.interaction.hot_widget # 0
    /\ ui.interaction.dragging_divider = ui.interaction.hot_widget
    /\ PanelAt(ui, Named(ui.interaction.hot_widget)).style.resizable # 0

\* The sibling before (offset -1) or after (offset 1) panel d, -1 for none.
Sibling(d, offset) ==
    LET chain == ChildChain(PanelAt(ui, d).parent)
        k     == CHOOSE i \in 1..Len(chain) : chain[i] = d
    IN  IF k + offset \in 1..Len(chain) THEN chain[k + offset] ELSE -1

\* The ID and the size on the axis dir of the panel at idx, 0 and 0 for -1.
IdAndSize(idx, dir) ==
    IF idx < 0 THEN <<0, 0>>
    ELSE <<PanelAt(ui, idx).id, SizeOn(PanelAt(ui, idx).rect, dir)>>

\* C26: at drag start drag_start_pos is the pointer x if the divider's
\* parent is a row and the pointer y if it is a column, and the left and
\* right targets are the IDs and the sizes along that axis of the siblings
\* just before and just after the divider, ID 0 and size 0 for a sibling
\* that is missing.
C26_DragStartRecords ==
    [][(InteractionStep /\ ui.input.mouse_pressed = 1
            /\ ui'.interaction.hot_widget # 0 /\ HotNamesResizable
            /\ PanelAt(ui, Named(ui'.interaction.hot_widget)).parent >= 0)
           => LET d   == Named(ui'.interaction.hot_widget)
                  dir == PanelAt(ui, PanelAt(ui, d).parent).style.direction
              IN  /\ ui'.interaction.drag_start_pos
                         = (IF dir = 0 THEN ui.input.mouse_x ELSE ui.input.mouse_y)
                  /\ <<ui'.interaction.resize_target_left_id,
                       ui'.interaction.drag_start_size_left>>
                         = IdAndSize(Sibling(d, -1), dir)
                  /\ <<ui'.interaction.resize_target_right_id,
                       ui'.interaction.drag_start_size_right>>
                         = IdAndSize(Sibling(d, 1), dir)]_vars

\* A drag begun on the first child of a column: the pointer y is recorded,
\* no left target, and the panel below with its height as the right target.
C26_Witness ==
    /\ HitTested
    /\ scene.kind = "hit" /\ scene.kids = <<"D", "P">> /\ scene.dir = 1
    /\ ui.input.mouse_pressed = 1
    /\ ui.interaction.dragging_divider = PanelAt(ui, 1).id
    /\ ui.interaction.drag_start_pos = ui.input.mouse_y
    /\ ui.input.mouse_y # ui.input.mouse_x
    /\ ui.interaction.resize_target_left_id = 0
    /\ ui.interaction.drag_start_size_left = 0
    /\ ui.interaction.resize_target_right_id = PanelAt(ui, 2).id
    /\ ui.interaction.drag_start_size_right = 100
    /\ PanelAt(ui, 2).rect.w # PanelAt(ui, 2).rect.h

\* C27: on a release edge, if a divider is dragged all six drag fields are
\* reset to 0 and active_widget stays; otherwise active_widget is set to 0
\* and the drag fields stay.
C27_ReleaseEdge ==
    [][(InteractionStep /\ ui.input.mouse_released = 1)
           => IF ui.interaction.dragging_divider # 0
              THEN /\ DragFields(ui') = <<0, 0, 0, 0, 0, 0>>
                   /\ ui'.interaction.active_widget = ui.interaction.active_widget
              ELSE /\ ui'.interaction.active_widget = 0
                   /\ DragFields(ui') = DragFields(ui)]_vars

\* The release frame of a drag: its resize step gave the first panel a size
\* other than the 100 it was built with, and the drag fields are 0.
C27_Witness ==
    /\ HitTested
    /\ scene.kind = "hit" /\ scene.kids = <<"P", "D", "P">> /\ scene.dir = 0
    /\ ui.input.mouse_released = 1
    /\ PanelAt(ui, 1).style.pref_w # 100
    /\ DragFields(ui) = <<0, 0, 0, 0, 0, 0>>

\* ---------------------------------------------------------------------------
\* Resize step of a drag
\* ---------------------------------------------------------------------------

DividerIdx == UI_Find_Panel_By_Id(ui, ui.interaction.dragging_divider)

\* The axis of the resize: the direction of the divider's parent.
Axis == PanelAt(ui, PanelAt(ui, DividerIdx).parent).style.direction

\* The interaction update of this step runs the resize step of a drag.
ResizeStep ==
    /\ InteractionStep
    /\ ui.interaction.dragging_divider # 0
    /\ (LeftIdx >= 0 \/ RightIdx >= 0)
    /\ DividerIdx >= 0
    /\ PanelAt(ui, DividerIdx).parent >= 0

AxisMin(idx) ==
    IF Axis = 0 THEN PanelAt(ui, idx).style.min_w ELSE PanelAt(ui, idx).style.min_h

AxisMax(idx) ==
    IF Axis = 0 THEN PanelAt(ui, idx).style.max_w ELSE PanelAt(ui, idx).style.max_h

\* The preferred size of a panel on the resize axis and on the other one.
AxisPref(c, idx) ==
    IF Axis = 0 THEN PanelAt(c, idx).style.pref_w ELSE PanelAt(c, idx).style.pref_h

OtherPref(c, idx) ==
    IF Axis = 0 THEN PanelAt(c, idx).style.pref_h ELSE PanelAt(c, idx).style.pref_w

Clamped(v, lo, hi) == IF v < lo THEN lo ELSE IF v > hi THEN hi ELSE v

\* The pointer's way along the axis since the drag began.
Delta ==
    (IF Axis = 0 THEN ui.input.mouse_x ELSE ui.input.mouse_y)
        - ui.interaction.drag_start_pos

\* The left size after the left panel's clamp, and the right size that
\* goes with it.
LeftFirst ==
    IF LeftIdx >= 0
    THEN Clamped(StartLeft + Delta, AxisMin(LeftIdx), AxisMax(LeftIdx))
    ELSE StartLeft + Delta

RightFirst == StartRight - (LeftFirst - StartLeft)

RightClampFires ==
    /\ RightIdx >= 0
    /\ (RightFirst < AxisMin(RightIdx) \/ RightFirst > AxisMax(RightIdx))

\* The sizes at the end of the step.
FinalRight ==
    IF RightIdx >= 0
    THEN Clamped(RightFirst, AxisMin(RightIdx), AxisMax(RightIdx))
    ELSE RightFirst

FinalLeft == IF RightClampFires THEN StartLeft + (StartRight - FinalRight) ELSE LeftFirst

ResizeRan ==
    /\ pc = "done"
    /\ ui.interaction.dragging_divider # 0
    /\ ui.input.mouse_pressed = 0
    /\ DividerIdx >= 0 /\ PanelAt(ui, DividerIdx).parent >= 0

EntryOf(c, id) ==
    SelectSeq(c.size_overrides, LAMBDA e : e.panel_id = id)

\* The stored size of an entry on the resize axis and on the other one.
AxisStored(e) == IF Axis = 0 THEN e.pref_w ELSE e.pref_h

OtherStored(e) == IF Axis = 0 THEN e.pref_h ELSE e.pref_w

\* The resize step wrote the size for the panel at idx, known as id.
SizeWritten(idx, id, size) ==
    /\ AxisPref(ui', idx) = size
    /\ PanelAt(ui', idx).style.flex_grow = 0
    /\ OtherPref(ui', idx) = OtherPref(ui, idx)
    /\ Len(EntryOf(ui', id)) = 1
    /\ AxisStored(EntryOf(ui', id)[1]) = size
    /\ OtherStored(EntryOf(ui', id)[1])
           = (IF EntryOf(ui, id) = <<>> THEN -1 ELSE OtherStored(EntryOf(ui, id)[1]))

\* The panels the step resolved, and their IDs.
Targets ==
    {t \in {<<LeftIdx, ui.interaction.resize_target_left_id>>,
            <<RightIdx, ui.interaction.resize_target_right_id>>} : t[1] >= 0}

\* Nothing but the targets changed: the other panels, the fields of the
\* targets other than the size on the axis and flex_grow, and the entries
\* of other IDs.
OnlyTargetsChanged ==
    /\ Len(ui'.panels) = Len(ui.panels)
    /\ \A i \in 0..(panel_count(ui) - 1) :
           IF \E t \in Targets : t[1] = i
           THEN [PanelAt(ui', i) EXCEPT !.style.pref_w = 0, !.style.pref_h = 0,
                                        !.style.flex_grow = 0]
                    = [PanelAt(ui, i) EXCEPT !.style.pref_w = 0, !.style.pref_h = 0,
                                             !.style.flex_grow = 0]
           ELSE PanelAt(ui', i) = PanelAt(ui, i)
    /\ Len(ui'.size_overrides) >= Len(ui.size_overrides)
    /\ \A k \in 1..Len(ui.size_overrides) :
           /\ ui'.size_overrides[k].panel_id = ui.size_overrides[k].panel_id
           /\ (\A t \in Targets : t[2] # ui.size_overrides[k].panel_id)
                  => ui'.size_overrides[k] = ui.size_overrides[k]
    /\ \A k \in 1..Len(ui'.size_overrides) :
           k > Len(ui.size_overrides)
               => \E t \in Targets : t[2] = ui'.size_overrides[k].panel_id

\* C29 (as stated): in a drag frame where the resize step runs, each resolved adjacent
\* panel gets the final size as its preferred size on the resize axis and
\* flex_grow 0, and the final size is stored in the override store under
\* the panel's ID for the resize axis only; the panel's preferred size and
\* stored override on the other axis, every other panel and every other
\* override entry are unchanged.
C29_ResizeStepWrites ==
    [][(ResizeStep /\ LeftIdx # RightIdx)
           => /\ LeftIdx >= 0
                     => SizeWritten(LeftIdx, ui.interaction.resize_target_left_id,
                                    FinalLeft)
              /\ RightIdx >= 0
                     => SizeWritten(RightIdx, ui.interaction.resize_target_right_id,
                                    FinalRight)
              /\ OnlyTargetsChanged]_vars

\* The override entry the step leaves for a target: an entry the ID had
\* keeps its place and takes the size unless the size is negative; an ID
\* without an entry gets one if the store has room, and none otherwise.
EntryAfter(id, size, room) ==
    IF EntryOf(ui, id) # <<>>
    THEN <<IF size < 0 THEN EntryOf(ui, id)[1]
           ELSE IF Axis = 0 THEN [EntryOf(ui, id)[1] EXCEPT !.pref_w = size]
           ELSE [EntryOf(ui, id)[1] EXCEPT !.pref_h = size]>>
    ELSE IF room
    THEN <<[panel_id |-> id,
            pref_w |-> IF Axis = 0 THEN size ELSE -1,
            pref_h |-> IF Axis = 0 THEN -1 ELSE size]>>
    ELSE <<>>

\* The style of the panel at idx took the size.
StyleWritten(idx, size) ==
    /\ AxisPref(ui', idx) = size
    /\ PanelAt(ui', idx).style.flex_grow = 0
    /\ OtherPref(ui', idx) = OtherPref(ui, idx)

\* The left target took an entry of its own in this step.
LeftAdded ==
    /\ LeftIdx >= 0
    /\ EntryOf(ui, ui.interaction.resize_target_left_id) = <<>>
    /\ Len(ui.size_overrides) < UI_MAX_SIZE_OVERRIDES

\* C29 (amended): in a drag frame where the resize step runs, each resolved
\* adjacent panel gets the final size as its preferred size on the resize
\* axis and flex_grow 0; the final size is stored under the panel's ID for
\* the resize axis only, except that an ID without an entry gets none when
\* the store is full and that an entry keeps its value when the final size
\* is negative; the panel's preferred size and stored override on the
\* other axis, every other panel and every other entry are unchanged.
C29_ResizeStepWritesIfRoom ==
    [][(ResizeStep /\ LeftIdx # RightIdx)
           => /\ LeftIdx >= 0
                     => /\ StyleWritten(LeftIdx, FinalLeft)
                        /\ EntryOf(ui', ui.interaction.resize_target_left_id)
                               = EntryAfter(ui.interaction.resize_target_left_id,
                                            FinalLeft,
                                            Len(ui.size_overrides)
                                                < UI_MAX_SIZE_OVERRIDES)
              /\ RightIdx >= 0
                     => /\ StyleWritten(RightIdx, FinalRight)
                        /\ EntryOf(ui', ui.interaction.resize_target_right_id)
                               = EntryAfter(ui.interaction.resize_target_right_id,
                                            FinalRight,
                                            Len(ui.size_overrides)
                                                + (IF LeftAdded THEN 1 ELSE 0)
                                                < UI_MAX_SIZE_OVERRIDES)
              /\ OnlyTargetsChanged]_vars

\* The second drag of a run, on panels under other names than the first:
\* the left panel took the last free entry and the right panel, written
\* 50 wide, has none.
C29_Witness ==
    /\ ResizeRan
    /\ LeftIdx >= 0 /\ RightIdx >= 0
    /\ Len(ui.size_overrides) = UI_MAX_SIZE_OVERRIDES
    /\ EntryOf(ui, ui.interaction.resize_target_left_id) # <<>>
    /\ AxisStored(EntryOf(ui, ui.interaction.resize_target_left_id)[1])
           = AxisPref(ui, LeftIdx)
    /\ EntryOf(ui, ui.interaction.resize_target_right_id) = <<>>
    /\ AxisPref(ui, RightIdx) = 50

\* The place of the rectangle of panel idx in the emitted list, 0 if the
\* emitter draws none for it.
PlaceOf(idx) ==
    LET drawn == SelectSeq(PreOrder(0), NotBlankLabel)
    IN  IF \E k \in 1..Len(drawn) : drawn[k] = idx
        THEN CHOOSE k \in 1..Len(drawn) : drawn[k] = idx
        ELSE 0

\* The size on the resize axis of an emitted rectangle.
EmittedSize(rc) == IF Axis = 0 THEN rc.right - rc.left ELSE rc.bottom - rc.top

\* C30: in a frame where the resize step of a drag writes for an adjacent
\* panel a size other than the one the panel was laid out with, the
\* rectangle emitted for the panel in that frame has the new size along
\* the resize axis.
C30_EmittedRectangleHasNewSize ==
    (pc = "emitted" /\ panel_count(ui) > 0
         /\ ui.interaction.dragging_divider # 0 /\ ui.input.mouse_pressed = 0
         /\ DividerIdx >= 0 /\ PanelAt(ui, DividerIdx).parent >= 0)
        => \A t \in Targets :
               (/\ AxisPref(ui, t[1]) # SizeOn(PanelAt(ui, t[1]).rect, Axis)
                /\ PlaceOf(t[1]) \in 1..Len(render_list.rectangles))
                   => EmittedSize(render_list.rectangles[PlaceOf(t[1])])
                          = AxisPref(ui, t[1])

\* ---------------------------------------------------------------------------
\* Lookup failure during a drag
\* ---------------------------------------------------------------------------

\* A captured target ID names no panel of this frame's tree.
LeftLost == ui.interaction.resize_target_left_id # 0 /\ LeftIdx < 0

RightLost == ui.interaction.resize_target_right_id # 0 /\ RightIdx < 0

\* The interaction update of this step runs while a divider is dragged.
DraggingStep == InteractionStep /\ ui.interaction.dragging_divider # 0

StoreWellFormed(c) ==
    /\ Len(c.size_overrides) <= UI_MAX_SIZE_OVERRIDES
    /\ \A j, k \in 1..Len(c.size_overrides) :
           c.size_overrides[j].panel_id = c.size_overrides[k].panel_id => j = k

\* Every entry of the store is still there, in its place, under its ID.
NoEntryRemoved ==
    /\ Len(ui'.size_overrides) >= Len(ui.size_overrides)
    /\ \A k \in 1..Len(ui.size_overrides) :
           ui'.size_overrides[k].panel_id = ui.size_overrides[k].panel_id

\* The entry with the arguments of the call that are not negative.
Updated(e, w, h) ==
    [e EXCEPT !.pref_w = IF w >= 0 THEN w ELSE @,
              !.pref_h = IF h >= 0 THEN h ELSE @]

\* The step is a call of UI_Set_Size_Override.
StoreStep == last_call'.op = "UI_Set_Size_Override"

\* C32: the store never holds two entries for one panel ID nor more
\* entries than its capacity; when it is full, UI_Set_Size_Override for an
\* ID it does not hold leaves it unchanged, while an ID it holds is still
\* updated (with the arguments that are not negative); no call removes an
\* entry.
C32_StoreBoundedNoRemoval ==
    [][StoreStep
           => LET id == last_call'.panel_id
                  w  == last_call'.pref_w
                  h  == last_call'.pref_h
              IN  /\ StoreWellFormed(ui')
                  /\ NoEntryRemoved
                  /\ (Len(ui.size_overrides) = UI_MAX_SIZE_OVERRIDES
                          /\ EntryOf(ui, id) = <<>>)
                         => ui'.size_overrides = ui.size_overrides
                  /\ EntryOf(ui, id) # <<>>
                         => /\ EntryOf(ui', id) = <<Updated(EntryOf(ui, id)[1], w, h)>>
                            /\ Len(ui'.size_overrides) = Len(ui.size_overrides)
                  /\ UI_Get_Size_Override_W(ui', id)
                         = (IF EntryOf(ui', id) = <<>> THEN -1
                            ELSE EntryOf(ui', id)[1].pref_w)
                  /\ UI_Get_Size_Override_H(ui', id)
                         = (IF EntryOf(ui', id) = <<>> THEN -1
                            ELSE EntryOf(ui', id)[1].pref_h)]_vars

\* The store is full; the last call was for the ID of its first entry and
\* gave it the width 0 in place of 70.
C32_Witness ==
    /\ last_call.op = "UI_Set_Size_Override"
    /\ Len(ui.size_overrides) = UI_MAX_SIZE_OVERRIDES
    /\ ui.size_overrides[1].panel_id = last_call.panel_id
    /\ last_call.pref_w = 0 /\ last_call.pref_h = -1
    /\ ui.size_overrides[1].pref_w = 0 /\ ui.size_overrides[1].pref_h = 70

\* ---------------------------------------------------------------------------
\* Frame start
\* ---------------------------------------------------------------------------

\* The step is the UI_BeginFrame of a frame.
BeginFrameStep == pc = "idle" /\ pc' = "begun"

\* C33: UI_BeginFrame resets the panel count, the parent stack depth, the
\* used-ID table and the render list, and copies hot_widget and
\* active_widget into their _prev fields; it leaves the override store,
\* hot_widget, active_widget and the drag fields as they are; and no step
\* other than the resize step of a drag creates or updates an override.
C33_BeginFrameResetsPerFrameState ==
    [][/\ BeginFrameStep
              => /\ panel_count(ui') = 0
                 /\ ui'.parent_stack_count = 0
                 /\ ui'.used_ids = <<>> /\ ui'.used_id_counts = <<>>
                 /\ render_list' = EmptyList
                 /\ ui'.interaction.hot_widget_prev = ui.interaction.hot_widget
                 /\ ui'.interaction.active_widget_prev = ui.interaction.active_widget
                 /\ ui'.size_overrides = ui.size_overrides
                 /\ ui'.interaction.hot_widget = ui.interaction.hot_widget
                 /\ ui'.interaction.active_widget = ui.interaction.active_widget
                 /\ DragFields(ui') = DragFields(ui)
       /\ ui'.size_overrides # ui.size_overrides => ResizeStep]_vars

\* The start of a later frame in the middle of a drag: the tree, the stack
\* and the render list of the frame before are gone, the overrides the
\* drag has stored, the hot widget and the drag are still there.
C33_Witness ==
    /\ pc = "begun"
    /\ ui.frame_number >= 3
    /\ panel_count(ui) = 0 /\ ui.parent_stack_count = 0 /\ ui.used_ids = <<>>
    /\ render_list = EmptyList
    /\ Len(ui.size_overrides) = 2
    /\ ui.interaction.dragging_divider # 0
    /\ ui.interaction.hot_widget # 0
    /\ ui.interaction.hot_widget_prev = ui.interaction.hot_widget
    /\ ui.interaction.drag_start_size_left = 100

\* ---------------------------------------------------------------------------
\* Click gesture
\* ---------------------------------------------------------------------------

\* The button of the button scene in the tree the frame has built.
ButtonId == PanelAt(ui, 0).id

\* The build of a frame of the button scene.
ButtonBuildStep == pc = "begun" /\ pc' = "built" /\ scene'.kind = "button"

\* The interaction update of a frame of the button scene.
ButtonUpdateStep == InteractionStep /\ scene.kind = "button"

\* C34: a click on a button with the pointer kept on it makes UI_Button
\* return 1 in exactly one frame, the one that sees the release edge.  The
\* update of the frame that sees the press edge on the hot button makes the
\* button active; the updates of the frames that hold the mouse button keep
\* it active and hot; the build of the frame that sees the release edge
\* with the button hot and active returns 1; a build that sees no release
\* edge returns 0, and the update of the release frame ends the gesture.
C34_ClickInReleaseFrameOnly ==
    [][/\ (ButtonUpdateStep /\ ui.input.mouse_pressed = 1
               /\ UI_Is_Hovered(ui, PanelAt(ui, 0).rect))
              => /\ ui'.interaction.hot_widget = ButtonId
                 /\ ui'.interaction.active_widget = ButtonId
       /\ (ButtonUpdateStep /\ ui.input.mouse_pressed = 0
               /\ ui.input.mouse_released = 0)
              => ui'.interaction.active_widget = ui.interaction.active_widget
       /\ (ButtonUpdateStep /\ ui.input.mouse_released = 1)
              => ui'.interaction.active_widget = 0
       /\ ButtonBuildStep
              => /\ (/\ ui.input.mouse_released = 1
                     /\ ui.interaction.active_widget = PanelAt(ui', 0).id
                     /\ ui.interaction.hot_widget = PanelAt(ui', 0).id)
                        => clicked' = 1
                 /\ ui.input.mouse_released = 0 => clicked' = 0
                 /\ ui.interaction.active_widget # PanelAt(ui', 0).id
                        => clicked' = 0]_vars

\* The build of the frame after the press frame, with the button released
\* on the button in between: UI_Button has returned 1.
C34_Witness ==
    /\ pc = "built" /\ scene.kind = "button"
    /\ ui.frame_number >= 2
    /\ ui.input.mouse_released = 1
    /\ ~released_outside
    /\ ui.interaction.active_widget = ButtonId
    /\ ui.interaction.hot_widget = ButtonId
    /\ clicked = 1

\* ---------------------------------------------------------------------------
\* Press and drag exclude each other
\* ---------------------------------------------------------------------------

\* C35: after every UI_Update_Interaction, active_widget and
\* dragging_divider are never both non-zero, whatever pointer moves, button
\* events and frames came before.
C35_ActiveAndDragExclusive ==
    pc = "done"
        => ~(ui.interaction.active_widget # 0
                 /\ ui.interaction.dragging_divider # 0)

\* The update of a later frame has started a drag on the press edge, with
\* no widget active.
C35_Witness ==
    /\ pc = "done"
    /\ ui.frame_number >= 2
    /\ ui.input.mouse_pressed = 1
    /\ ui.interaction.dragging_divider # 0
    /\ ui.interaction.dragging_divider = ui.interaction.hot_widget
    /\ ui.interaction.active_widget = 0

\* C36: after UI_Update_Interaction in a frame that sampled the left button
\* up, active_widget and dragging_divider are both 0: no press and no drag
\* outlives the frame that observes the button released.
C36_NothingHeldWhenButtonUp ==
    (pc = "done" /\ ui.input.mouse_down = 0)
        => /\ ui.interaction.active_widget = 0
           /\ ui.interaction.dragging_divider = 0

\* The update of the frame that sees the release edge after a press on a
\* panel: the widget that was active when the frame began is active no more.
C36_Witness ==
    /\ pc = "done"
    /\ ui.input.mouse_down = 0
    /\ ui.input.mouse_released = 1
    /\ ui.interaction.active_widget_prev # 0
    /\ ui.interaction.active_widget = 0
    /\ ui.interaction.dragging_divider = 0

\* ---------------------------------------------------------------------------
\* The capture of a drag
\* ---------------------------------------------------------------------------

\* The step is one of a drag in progress, other than the interaction update
\* of the frame that sees the release edge.
DragGoesOn ==
    /\ ui.interaction.dragging_divider # 0
    /\ ~(InteractionStep /\ ui.input.mouse_released = 1)

\* After the resize step of a drag frame, the preferred sizes of the
\* resolved panels are the ones the capture, the pointer and the panels'
\* limits of this one state give.
SizesFromCapture ==
    ResizeRan
        => /\ (LeftIdx >= 0 /\ LeftIdx # RightIdx)
                  => AxisPref(ui, LeftIdx) = FinalLeft
           /\ RightIdx >= 0 => AxisPref(ui, RightIdx) = FinalRight

\* C37: from drag start until the release edge, drag_start_pos,
\* drag_start_size_left, drag_start_size_right and both resize target IDs
\* never change, whichever step the program takes; so the sizes a drag
\* frame writes are a function of the capture, of the pointer coordinate of
\* that frame and of the panels' minimum and maximum, whatever the pointer
\* did in the frames before.
C37_CaptureConstantDuringDrag ==
    [][/\ DragGoesOn => DragFields(ui') = DragFields(ui)
       /\ SizesFromCapture']_vars

\* The second drag frame after the capture: the pointer was elsewhere in
\* the frame before, and the sizes are those of the capture and of the
\* pointer now.
C37_Witness ==
    /\ ResizeRan
    /\ ui.frame_number >= 4
    /\ LeftIdx >= 0 /\ RightIdx >= 0 /\ LeftIdx # RightIdx
    /\ ui.input_prev.mouse_x # ui.input.mouse_x
    /\ Delta # 0
    /\ AxisPref(ui, LeftIdx) = FinalLeft
    /\ AxisPref(ui, RightIdx) = FinalRight
    /\ ui.interaction.drag_start_size_left = 100

\* ---------------------------------------------------------------------------
\* A drag without displacement
\* ---------------------------------------------------------------------------

\* C38: in a drag frame where the pointer coordinate on the resize axis
\* equals drag_start_pos, the sizes written for the left and the right
\* panel are drag_start_size_left and drag_start_size_right, for every size
\* at drag start and every minimum and maximum, the default minimum of 200
\* that UI_Begin_Panel gives included.
C38_ZeroDisplacementKeepsSizes ==
    [][(ResizeStep /\ Delta = 0)
           => /\ (LeftIdx >= 0 /\ LeftIdx # RightIdx)
                     => AxisPref(ui', LeftIdx) = StartLeft
              /\ RightIdx >= 0 => AxisPref(ui', RightIdx) = StartRight]_vars

\* ---------------------------------------------------------------------------
\* The children fill their container
\* ---------------------------------------------------------------------------

\* The last call laid out a row.
RowLaidOut == last_call.op = "UI_LayoutRow"

RowGaps ==
    IF Len(last_call.kids) > 1 THEN last_call.gap * (Len(last_call.kids) - 1) ELSE 0

\* The sum of the elements of a sequence of numbers.
RECURSIVE SumSeq(_)
SumSeq(s) == IF s = <<>> THEN 0 ELSE Head(s) + SumSeq(Tail(s))

\* fixed_sum + gaps_total does not exceed the content width.
RowFits ==
    RowFixedSum(last_call.kids, Len(last_call.kids)) + RowGaps <= last_call.cw

\* The pixels of the content width the children and the gaps leave unused.
RowShortfall ==
    last_call.cw - (SumSeq(last_call.widths) + RowGaps)

RowGrowing ==
    Cardinality({k \in 1..Len(last_call.kids) : last_call.kids[k].grow.m > 0})

\* C39 (as stated): for a container with a non-negative gap whose fixed_sum
\* + gaps_total does not exceed its content main size, after the layout the
\* main-axis extent of the children (their sizes plus the gaps) is at most
\* the content main size, and when some child grows it falls short of it by
\* fewer pixels than there are growing children.
C39_ShortfallBelowGrowingCount ==
    (RowLaidOut /\ RowFits)
        => /\ RowShortfall >= 0
           /\ RowGrowing > 0 => RowShortfall < RowGrowing

\* C39 (amended): under the same conditions the extent of the children is
\* at most the content main size, and when some child grows it falls short
\* of it by at most as many pixels as there are growing children; a child
\* that grows alone takes all that remains.
C39_ShortfallAtMostGrowingCount ==
    (RowLaidOut /\ RowFits)
        => /\ RowShortfall >= 0
           /\ RowGrowing > 0 => RowShortfall <= RowGrowing
           /\ RowGrowing = 1 => RowShortfall = 0

\* Three children of grow factor 0.1f in a row of 3 pixels: each share of
\* the 3 pixels truncates to 0.
C39_Witness ==
    /\ RowLaidOut /\ RowFits
    /\ last_call.cw = 3 /\ last_call.gap = 0
    /\ last_call.kids = <<[pref |-> -1, grow |-> Tenth],
                          [pref |-> -1, grow |-> Tenth],
                          [pref |-> -1, grow |-> Tenth]>>
    /\ last_call.widths = <<0, 0, 0>>
    /\ RowShortfall = RowGrowing

\* ---------------------------------------------------------------------------
\* Input accumulated between frames
\* ---------------------------------------------------------------------------

\* C40: the wheel delta and the characters delivered between two frames
\* are observable during the build of the following frame: after that
\* frame's UI_BeginFrame, and until its build is over, UI_Get_Mouse_Wheel
\* returns the accumulated delta and char_count is the number of characters
\* delivered, up to the capacity of the buffer.
C40_AccumulatedInputSeenByBuild ==
    [][/\ BeginFrameStep
              => /\ UI_Get_Mouse_Wheel(ui') = UI_Get_Mouse_Wheel(ui)
                 /\ ui'.input.char_count = ui.input.char_count
       /\ (pc = "begun" /\ pc' = "built")
              => /\ UI_Get_Mouse_Wheel(ui') = UI_Get_Mouse_Wheel(ui)
                 /\ ui'.input.char_count = ui.input.char_count]_vars

====
